---- MODULE Spec2Model ----
(***************************************************************************)
(* Engine Health Monitoring core: the data acquisition module              *)
(* (data_acquisition.c) and the alert manager (alert_manager.c).           *)
(*                                                                         *)
(* 32-bit unsigned words are pairs <<hi, lo>> of 16-bit halves, because    *)
(* the model checker's integers are 32-bit signed.  Engineering values     *)
(* (float in the source) are integers in thousandths of the unit.          *)
(***************************************************************************)
EXTENDS Integers, Sequences, FiniteSets, TLC

(* ------------------------------------------------------------------ *)
(* Bounds of the model                                                  *)
(* ------------------------------------------------------------------ *)
MaxTime == 120
MaxBusTime == 30
MaxReadTime == 10
MaxReadCycles == 2
MaxAlertEngines == 3
MaxRecedeEngines == 1

(* The clock wraps WrapLead ms after the start; runs last MaxWrapTime ms *)
WrapLead == 45

MaxWrapTime == 160

(* ------------------------------------------------------------------ *)
(* Program constants                                                    *)
(* ------------------------------------------------------------------ *)
EHMS_MAX_ENGINES == 4
EHMS_ENGINE_COUNT == 4
EHMS_PARAM_COUNT == 48
EHMS_MAX_SAMPLE_RATE_HZ == 100
EHMS_MAX_ACTIVE_ALERTS == 32
EHMS_ARINC429_BUS_COUNT == 4
DAQ_STALE_TIMEOUT_MS == 100
DAQ_MAX_CONSECUTIVE_FAILURES == 5
ALERT_DEBOUNCE_CYCLES == 3
ALERT_HYSTERESIS_PERCENT == 2

EHMS_OK == 0
EHMS_ERROR == 0 - 1
EHMS_ERROR_PARAM == 0 - 2
EHMS_ERROR_RANGE == 0 - 3
EHMS_ERROR_TIMEOUT == 0 - 4
EHMS_ERROR_HARDWARE == 0 - 7
EHMS_ERROR_NOT_INIT == 0 - 9
EHMS_ERROR_CRC == 0 - 10

EHMS_STATE_OFF == 0
EHMS_STATE_INIT == 1

EHMS_PARAM_VALID == 0
EHMS_PARAM_STALE == 1
EHMS_PARAM_FAILED == 2
EHMS_PARAM_NCD == 3
EHMS_PARAM_TEST == 4

EHMS_PARAM_N1 == 0
EHMS_PARAM_N2 == 1
EHMS_PARAM_EGT == 2
EHMS_PARAM_FF == 3
EHMS_PARAM_OIL_TEMP == 4
EHMS_PARAM_OIL_PRESS == 5
EHMS_PARAM_OIL_QTY == 6
EHMS_PARAM_VIB_FAN == 7
EHMS_PARAM_VIB_CORE == 8
EHMS_PARAM_EPR == 9

EHMS_ALERT_NONE == 0
EHMS_ALERT_STATUS == 1
EHMS_ALERT_ADVISORY == 2
EHMS_ALERT_CAUTION == 3
EHMS_ALERT_WARNING == 4

(* ------------------------------------------------------------------ *)
(* 32-bit words                                                         *)
(* ------------------------------------------------------------------ *)
U32(v) == <<v \div 65536, v % 65536>>

I32(v) == IF v >= 0 THEN U32(v)
          ELSE <<65535 - (((0 - v) - 1) \div 65536), 65535 - (((0 - v) - 1) % 65536)>>

Add32(a, d) == <<(a[1] + ((a[2] + d) \div 65536)) % 65536, (a[2] + d) % 65536>>

Sub32(a, b) == IF a[2] >= b[2]
               THEN <<((a[1] - b[1]) + 65536) % 65536, a[2] - b[2]>>
               ELSE <<((a[1] - b[1]) + 65535) % 65536, (a[2] + 65536) - b[2]>>

Gt32(a, n) == a[1] > 0 \/ a[2] > n

LE32(w) == <<w[2] % 256, w[2] \div 256, w[1] % 256, w[1] \div 256>>

(* ------------------------------------------------------------------ *)
(* CRC-32 (daq_calculate_crc32)                                         *)
(* ------------------------------------------------------------------ *)
RECURSIVE XorBits(_, _, _)
XorBits(a, b, n) ==
    IF n = 0 THEN 0
    ELSE (((a % 2) + (b % 2)) % 2) + 2 * XorBits(a \div 2, b \div 2, n - 1)

(* a ^ b on bytes, tabulated once *)
XorByteTable ==
    SubSeq([a \in 1..256 |->
              SubSeq([b \in 1..256 |-> XorBits(a - 1, b - 1, 8)], 1, 256)], 1, 256)

Xor8(a, b) == XorByteTable[a + 1][b + 1]

Xor16(a, b) == Xor8(a % 256, b % 256) + 256 * Xor8(a \div 256, b \div 256)

Xor32(a, b) == <<Xor16(a[1], b[1]), Xor16(a[2], b[2])>>

Shr1(a) == <<a[1] \div 2, (a[2] \div 2) + 32768 * (a[1] % 2)>>

(* 0xEDB88320 *)
DAQ_CRC32_POLYNOMIAL == <<60856, 33568>>

(* for (bit = 0; bit < 8; bit++) crc = (crc & 1) ? (crc >> 1) ^ POLY : crc >> 1 *)
RECURSIVE CrcBitLoop(_, _)
CrcBitLoop(crc, bit) ==
    IF bit >= 8 THEN crc
    ELSE CrcBitLoop(IF crc[2] % 2 # 0
                    THEN Xor32(Shr1(crc), DAQ_CRC32_POLYNOMIAL)
                    ELSE Shr1(crc), bit + 1)

(* The bit loop is linear over XOR and shifts the low byte out, so its     *)
(* result on crc is the loop run on the low byte alone, XOR crc >> 8.      *)
(* CrcLowByte[b + 1] is the loop run on byte b, as little-endian bytes.    *)
CrcLowByte == SubSeq([i \in 1..256 |-> LE32(CrcBitLoop(<<0, i - 1>>, 0))], 1, 256)

(* crc ^= bytes[i], then the bit loop; crc as its four little-endian bytes *)
CrcByte(crc, byte) ==
    LET t == CrcLowByte[Xor8(crc[1], byte) + 1]
    IN <<Xor8(t[1], crc[2]), Xor8(t[2], crc[3]), Xor8(t[3], crc[4]), t[4]>>

RECURSIVE CrcBytes(_, _, _)
CrcBytes(crc, bytes, i) ==
    IF crc[1] < 0 \/ i > Len(bytes) THEN crc
    ELSE CrcBytes(CrcByte(crc, bytes[i]), bytes, i + 1)

(* The payload is fed field group by field group: chunks is a sequence of *)
(* byte sequences, in memory order.                                       *)
RECURSIVE CrcChunks(_, _, _)
CrcChunks(crc, chunks, k) ==
    IF crc[1] < 0 \/ k > Len(chunks) THEN crc
    ELSE CrcChunks(CrcBytes(crc, chunks[k], 1), chunks, k + 1)

(* return ~crc, as a 32-bit word *)
CrcFinal(crc) ==
    <<(255 - crc[4]) * 256 + (255 - crc[3]), (255 - crc[2]) * 256 + (255 - crc[1])>>

daq_calculate_crc32(chunks) == CrcFinal(CrcChunks(<<255, 255, 255, 255>>, chunks, 1))

(* ------------------------------------------------------------------ *)
(* Parameter table and external collaborators                           *)
(* ------------------------------------------------------------------ *)

(* test_config.engine_count of the test fixture *)
config_get_engine_count == 2

(* The parameter slots carried by the model, in index order: N1 (serial *)
(* bus 0), fan vibration (multiplex bus) and the last slot of the table. *)
Params == <<EHMS_PARAM_N1, EHMS_PARAM_VIB_FAN, EHMS_PARAM_COUNT - 1>>

ParamSet == {Params[k] : k \in 1..Len(Params)}

Engines == 0..(EHMS_MAX_ENGINES - 1)

Buses == 0..(EHMS_ARINC429_BUS_COUNT - 1)

ConfigRow(id, label, prim, back, scale, offset) ==
    [param_id |-> id, arinc_label |-> label, bus_primary |-> prim,
     bus_backup |-> back, scale_factor |-> scale, offset |-> offset]

(* s_param_config[p]; scale and offset in thousandths; rows past the    *)
(* initialisers are zero-filled by the language                          *)
s_param_config(p) ==
    CASE p = EHMS_PARAM_N1        -> ConfigRow(EHMS_PARAM_N1, 200, 0, 1, 100, 0)
      [] p = EHMS_PARAM_N2        -> ConfigRow(EHMS_PARAM_N2, 201, 0, 1, 100, 0)
      [] p = EHMS_PARAM_EGT       -> ConfigRow(EHMS_PARAM_EGT, 202, 0, 1, 1000, 0)
      [] p = EHMS_PARAM_FF        -> ConfigRow(EHMS_PARAM_FF, 203, 0, 1, 100, 0)
      [] p = EHMS_PARAM_OIL_TEMP  -> ConfigRow(EHMS_PARAM_OIL_TEMP, 204, 0, 1, 500, 0 - 40000)
      [] p = EHMS_PARAM_OIL_PRESS -> ConfigRow(EHMS_PARAM_OIL_PRESS, 205, 0, 1, 100, 0)
      [] p = EHMS_PARAM_OIL_QTY   -> ConfigRow(EHMS_PARAM_OIL_QTY, 206, 0, 1, 500, 0)
      [] p = EHMS_PARAM_VIB_FAN   -> ConfigRow(EHMS_PARAM_VIB_FAN, 207, 2, 3, 1, 0)
      [] p = EHMS_PARAM_VIB_CORE  -> ConfigRow(EHMS_PARAM_VIB_CORE, 208, 2, 3, 1, 0)
      [] p = EHMS_PARAM_EPR       -> ConfigRow(EHMS_PARAM_EPR, 209, 0, 1, 1, 0)
      [] OTHER                    -> ConfigRow(0, 0, 0, 0, 0, 0)

(* ehms_timestamp_t is carried as the millisecond reading it stands for *)
timestamp_to_ms(ts) == ts

(* param_db_get_limits: limits in thousandths, known for N1 and fan vibration *)
param_db_get_limits(id) ==
    CASE id = EHMS_PARAM_N1      -> [result |-> EHMS_OK, min_value |-> 0, max_value |-> 120000]
      [] id = EHMS_PARAM_VIB_FAN -> [result |-> EHMS_OK, min_value |-> 0, max_value |-> 10000]
      [] OTHER                   -> [result |-> EHMS_ERROR, min_value |-> 0, max_value |-> 0]

(* What a read of the serial bus can return *)
WordOk(d) == [result |-> EHMS_OK, data |-> d]

WordFail == [result |-> EHMS_ERROR_TIMEOUT, data |-> 0]

(* What a read of the multiplex bus can return: data[0], data[1] *)
MsgOk(d0, d1) == [result |-> EHMS_OK, data0 |-> d0, data1 |-> d1]

MsgFail == [result |-> EHMS_ERROR_TIMEOUT, data0 |-> 0, data1 |-> 0]

(* ------------------------------------------------------------------ *)
(* Data structures                                                      *)
(* ------------------------------------------------------------------ *)
ZeroParam ==
    [param_id |-> 0, status |-> 0, raw_value |-> 0, eng_value |-> 0,
     timestamp |-> <<0, 0>>, source_bus |-> 0]

ZeroSnapshot ==
    [engine_id |-> 0, sample_time |-> <<0, 0>>, flight_phase |-> 0,
     parameters |-> [p \in ParamSet |-> ZeroParam], health_status |-> 0,
     crc32 |-> <<0, 0>>]

ZeroSource ==
    [is_active |-> FALSE, is_primary |-> FALSE, bus_id |-> 0,
     last_update_ms |-> <<0, 0>>, failure_count |-> 0, total_samples |-> 0,
     error_samples |-> 0]

(* memset(&s_daq_state, 0, sizeof(s_daq_state)) *)
ZeroDaqState ==
    [is_initialized |-> FALSE, state |-> EHMS_STATE_OFF, cycle_count |-> 0,
     current_time_ms |-> <<0, 0>>, sources |-> [b \in Buses |-> ZeroSource],
     engine_data |-> [e \in Engines |-> ZeroSnapshot], last_error |-> EHMS_OK]

(* The bytes of one parameter record *)
ParamBytes(q) ==
    LE32(U32(q.param_id)) \o LE32(U32(q.status)) \o LE32(I32(q.raw_value))
      \o LE32(I32(q.eng_value)) \o LE32(q.timestamp) \o <<q.source_bus>>

(* sizeof(ehms_engine_snapshot_t) - sizeof(uint32_t): every field before crc32 *)
Payload(snap) ==
    <<LE32(U32(snap.engine_id)) \o LE32(snap.sample_time)
        \o LE32(U32(snap.flight_phase))>>
      \o [k \in 1..Len(Params) |-> ParamBytes(snap.parameters[Params[k]])]
      \o <<LE32(U32(snap.health_status))>>

(* ------------------------------------------------------------------ *)
(* State                                                                *)
(* ------------------------------------------------------------------ *)
VARIABLES
    s_daq_state,        \* the module state of data_acquisition.c
    now,                \* the millisecond clock behind system_get_time_ms
    daq_result,         \* what the last data-acquisition call returned
    out_snapshot,       \* the caller's ehms_engine_snapshot_t buffer
    out_param,          \* the caller's ehms_parameter_t buffer
    reported,           \* the error_report calls of the last operation
    lastOp,             \* the last operation and its arguments
    lastWords,          \* what the serial buses answered in the last cycle
    lastMsg,            \* what the multiplex bus answered in the last cycle
    stamped,            \* per engine, the snapshot as it stood when crc32 was computed
    driver_inits,       \* the driver initialisations of the last operation, in order
    s_alert_state,      \* the module state of alert_manager.c
    alert_result,       \* what the last alert-manager call returned
    alert_trace,        \* what the last alert_process_snapshot did with its exceedances
    lastSnapshot        \* the snapshot handed to the last alert_process_snapshot

daq_vars == <<s_daq_state, now, daq_result, out_snapshot, out_param, reported,
              lastWords, lastMsg, stamped, driver_inits>>

alert_vars == <<s_alert_state, alert_result, alert_trace, lastSnapshot>>

vars == <<daq_vars, alert_vars, lastOp>>

(* ------------------------------------------------------------------ *)
(* data_acquisition.c: private functions                                *)
(* ------------------------------------------------------------------ *)
(* Mutation: the engine count is not checked *)
daq_validate_config_RateOnly(config) ==
    IF config.sample_rate_hz > EHMS_MAX_SAMPLE_RATE_HZ THEN EHMS_ERROR_RANGE
    ELSE EHMS_OK

daq_validate_config(config) ==
    IF config.sample_rate_hz > EHMS_MAX_SAMPLE_RATE_HZ THEN EHMS_ERROR_RANGE
    ELSE IF config.engine_count > EHMS_MAX_ENGINES THEN EHMS_ERROR_RANGE
    ELSE EHMS_OK

daq_init_sources(st) ==
    [st EXCEPT !.sources =
        [i \in Buses |->
            [is_active |-> TRUE, is_primary |-> (i < 2), bus_id |-> i,
             last_update_ms |-> <<0, 0>>, failure_count |-> 0,
             total_samples |-> 0, error_samples |-> 0]]]

(* Mutation: > in place of >= *)
daq_update_statistics_OneLate(st, bus_id, success) ==
    IF bus_id < EHMS_ARINC429_BUS_COUNT
    THEN LET src == st.sources[bus_id]
             failures == src.failure_count + 1
         IN [st EXCEPT !.sources[bus_id] =
                IF ~success
                THEN [src EXCEPT !.total_samples = @ + 1,
                                 !.last_update_ms = st.current_time_ms,
                                 !.error_samples = @ + 1,
                                 !.failure_count = failures,
                                 !.is_active =
                                     IF failures > DAQ_MAX_CONSECUTIVE_FAILURES
                                     THEN FALSE ELSE @]
                ELSE [src EXCEPT !.total_samples = @ + 1,
                                 !.last_update_ms = st.current_time_ms,
                                 !.failure_count = 0]]
    ELSE st

(* Mutation: a successful read marks the bus active again *)
daq_update_statistics_Reactivates(st, bus_id, success) ==
    IF bus_id < EHMS_ARINC429_BUS_COUNT
    THEN LET src == st.sources[bus_id]
             failures == src.failure_count + 1
         IN [st EXCEPT !.sources[bus_id] =
                IF ~success
                THEN [src EXCEPT !.total_samples = @ + 1,
                                 !.last_update_ms = st.current_time_ms,
                                 !.error_samples = @ + 1,
                                 !.failure_count = failures,
                                 !.is_active =
                                     IF failures >= DAQ_MAX_CONSECUTIVE_FAILURES
                                     THEN FALSE ELSE @]
                ELSE [src EXCEPT !.total_samples = @ + 1,
                                 !.last_update_ms = st.current_time_ms,
                                 !.failure_count = 0,
                                 !.is_active = TRUE]]
    ELSE st

daq_update_statistics(st, bus_id, success) ==
    IF bus_id < EHMS_ARINC429_BUS_COUNT
    THEN LET src == st.sources[bus_id]
             failures == src.failure_count + 1
         IN [st EXCEPT !.sources[bus_id] =
                IF ~success
                THEN [src EXCEPT !.total_samples = @ + 1,
                                 !.last_update_ms = st.current_time_ms,
                                 !.error_samples = @ + 1,
                                 !.failure_count = failures,
                                 !.is_active =
                                     IF failures >= DAQ_MAX_CONSECUTIVE_FAILURES
                                     THEN FALSE ELSE @]
                ELSE [src EXCEPT !.total_samples = @ + 1,
                                 !.last_update_ms = st.current_time_ms,
                                 !.failure_count = 0]]
    ELSE st

(* Mutation: a failed read refreshes the timestamp of the slot *)
ArincStore_StampsFailure(st, bus_id, engine, p, word, ts) ==
    IF word.result = EHMS_OK
    THEN daq_update_statistics(
             [st EXCEPT !.engine_data[engine].parameters[p] =
                 [param_id |-> p,
                  status |-> EHMS_PARAM_VALID,
                  raw_value |-> word.data,
                  eng_value |-> word.data * s_param_config(p).scale_factor
                                  + s_param_config(p).offset,
                  timestamp |-> ts,
                  source_bus |-> bus_id]],
             bus_id, TRUE)
    ELSE daq_update_statistics(
             [st EXCEPT !.engine_data[engine].parameters[p].timestamp = ts],
             bus_id, FALSE)

(* Mutation: the timestamp is not taken on a successful read *)
ArincStore_KeepsTimestamp(st, bus_id, engine, p, word, ts) ==
    IF word.result = EHMS_OK
    THEN daq_update_statistics(
             [st EXCEPT !.engine_data[engine].parameters[p] =
                 [param_id |-> p,
                  status |-> EHMS_PARAM_VALID,
                  raw_value |-> word.data,
                  eng_value |-> word.data * s_param_config(p).scale_factor
                                  + s_param_config(p).offset,
                  timestamp |-> @.timestamp,
                  source_bus |-> bus_id]],
             bus_id, TRUE)
    ELSE daq_update_statistics(st, bus_id, FALSE)

(* One pass of the loop body of daq_read_arinc429_data for slot p: word is *)
(* what arinc429_read(bus_id, label) returned, ts is system_get_timestamp() *)
ArincStore(st, bus_id, engine, p, word, ts) ==
    IF word.result = EHMS_OK
    THEN daq_update_statistics(
             [st EXCEPT !.engine_data[engine].parameters[p] =
                 [param_id |-> p,
                  status |-> EHMS_PARAM_VALID,
                  raw_value |-> word.data,
                  eng_value |-> word.data * s_param_config(p).scale_factor
                                  + s_param_config(p).offset,
                  timestamp |-> ts,
                  source_bus |-> bus_id]],
             bus_id, TRUE)
    ELSE daq_update_statistics(st, bus_id, FALSE)

(* daq_read_arinc429_data: the loop over the table from slot Params[k] on; *)
(* acc is the module state and the result so far                           *)
RECURSIVE ArincLoop(_, _, _, _, _, _)
ArincLoop(acc, k, bus_id, engine, words, ts) ==
    IF k > Len(Params) THEN acc
    ELSE LET p == Params[k]
         IN IF s_param_config(p).bus_primary = bus_id
            THEN ArincLoop(
                     [st |-> ArincStore(acc.st, bus_id, engine, p, words[bus_id][p], ts),
                      result |-> words[bus_id][p].result],
                     k + 1, bus_id, engine, words, ts)
            ELSE ArincLoop(acc, k + 1, bus_id, engine, words, ts)

daq_read_arinc429_data(st, bus_id, engine, words, ts) ==
    ArincLoop([st |-> st, result |-> EHMS_OK], 1, bus_id, engine, words, ts)

VibStore(st, engine, p, data) ==
    IF p \in ParamSet
    THEN [st EXCEPT !.engine_data[engine].parameters[p] =
             [@ EXCEPT !.raw_value = data, !.eng_value = data * 1,
                       !.status = EHMS_PARAM_VALID]]
    ELSE st

(* msg is what milstd1553_read_subaddress(5, &msg) returned *)
daq_read_1553_data(st, engine, msg) ==
    IF msg.result = EHMS_OK
    THEN [st |-> VibStore(VibStore(st, engine, EHMS_PARAM_VIB_FAN, msg.data0),
                          engine, EHMS_PARAM_VIB_CORE, msg.data1),
          result |-> EHMS_OK]
    ELSE [st |-> st, result |-> msg.result]

daq_validate_parameter(param) ==
    LET limits == param_db_get_limits(param.param_id)
    IN IF limits.result = EHMS_OK
          /\ (param.eng_value < limits.min_value \/ param.eng_value > limits.max_value)
       THEN [param EXCEPT !.status = EHMS_PARAM_FAILED]
       ELSE param

(* Mutation: the age taken without wrap-around, a clock reading below    *)
(* the timestamp giving no age at all                                    *)
daq_check_staleness_NoWrap(param, current_time_ms) ==
    LET ts == timestamp_to_ms(param.timestamp)
        earlier == \/ current_time_ms[1] < ts[1]
                   \/ current_time_ms[1] = ts[1] /\ current_time_ms[2] < ts[2]
        param_age_ms == IF earlier THEN <<0, 0>> ELSE Sub32(current_time_ms, ts)
    IN IF Gt32(param_age_ms, DAQ_STALE_TIMEOUT_MS) /\ param.status = EHMS_PARAM_VALID
       THEN [param EXCEPT !.status = EHMS_PARAM_STALE]
       ELSE param

(* Mutation: the timeout taken in the unit of the cycle period *)
daq_check_staleness_WrongUnit(param, current_time_ms) ==
    LET param_age_ms == Sub32(current_time_ms, timestamp_to_ms(param.timestamp))
    IN IF Gt32(param_age_ms, DAQ_STALE_TIMEOUT_MS * 1000)
          /\ param.status = EHMS_PARAM_VALID
       THEN [param EXCEPT !.status = EHMS_PARAM_STALE]
       ELSE param

(* Mutation: >= in place of > *)
daq_check_staleness_Inclusive(param, current_time_ms) ==
    LET param_age_ms == Sub32(current_time_ms, timestamp_to_ms(param.timestamp))
    IN IF Gt32(param_age_ms, DAQ_STALE_TIMEOUT_MS - 1)
          /\ param.status = EHMS_PARAM_VALID
       THEN [param EXCEPT !.status = EHMS_PARAM_STALE]
       ELSE param

daq_check_staleness(param, current_time_ms) ==
    LET param_age_ms == Sub32(current_time_ms, timestamp_to_ms(param.timestamp))
    IN IF Gt32(param_age_ms, DAQ_STALE_TIMEOUT_MS) /\ param.status = EHMS_PARAM_VALID
       THEN [param EXCEPT !.status = EHMS_PARAM_STALE]
       ELSE param

(* ------------------------------------------------------------------ *)
(* data_acquisition.c: daq_execute_cycle                                *)
(* ------------------------------------------------------------------ *)

(* The body of the engine loop.  Returns the module state after it and *)
(* the snapshot as it stood when its CRC was computed.                  *)
EngineCycle(st, eng, words, msg, ts) ==
    LET r1 == daq_read_arinc429_data(st, s_param_config(0).bus_primary, eng, words, ts)
        r2 == IF r1.result # EHMS_OK
              THEN daq_read_arinc429_data(r1.st, s_param_config(0).bus_backup,
                                          eng, words, ts)
              ELSE r1
        r3 == IF r2.result = EHMS_OK THEN daq_read_1553_data(r2.st, eng, msg) ELSE r2
        swept == [r3.st EXCEPT !.engine_data[eng].parameters =
                     [p \in ParamSet |->
                         daq_check_staleness(daq_validate_parameter(@[p]),
                                             r3.st.current_time_ms)]]
        crc == daq_calculate_crc32(Payload(swept.engine_data[eng]))
        summed == [swept EXCEPT !.engine_data[eng].crc32 = crc]
    IN [st |-> [summed EXCEPT !.engine_data[eng].sample_time = ts],
        stamp |-> [done |-> TRUE, snap |-> summed.engine_data[eng]]]

RECURSIVE EngineLoop(_, _, _, _, _, _)
EngineLoop(acc, eng, count, words, msg, ts) ==
    IF eng >= count THEN acc
    ELSE LET r == EngineCycle(acc.st, eng, words, msg, ts)
         IN EngineLoop([st |-> r.st, stamps |-> [acc.stamps EXCEPT ![eng] = r.stamp]],
                       eng + 1, count, words, msg, ts)

(* The serial-bus answers of one cycle, words[bus][slot]: w1 answers    *)
(* bus 0 for the N1 label, w2 bus 0 for the label of the last slot, w3  *)
(* bus 1 for the N1 label                                                *)
Words(w1, w2, w3) ==
    [b \in Buses |-> [p \in ParamSet |->
        IF b = 0 /\ p = EHMS_PARAM_N1 THEN w1
        ELSE IF b = 0 /\ p = EHMS_PARAM_COUNT - 1 THEN w2
        ELSE IF b = 1 /\ p = EHMS_PARAM_N1 THEN w3
        ELSE WordFail]]

(* N1 85.0 % is within its limits, 130.0 % is above them *)
WordInputs ==
    {Words(w1, w2, w3) :
        w1 \in {WordFail, WordOk(850), WordOk(1300)},
        w2 \in {WordFail, WordOk(7)},
        w3 \in {WordFail, WordOk(850)}}

MsgInputs == {MsgFail, MsgOk(2000, 0)}

(* A primary serial bus that answers for N1 or not, nothing else answering *)
N1WordInputs ==
    {Words(w1, WordFail, WordFail) : w1 \in {WordFail, WordOk(850), WordOk(1300)}}

Op(name, arg, ptr) == [op |-> name, arg |-> arg, ptr |-> ptr]

(* d is the time gone by since the cyclic executive's previous call, so  *)
(* system_get_time_ms() and system_get_timestamp() read now + d          *)
DaqExecuteCycle(d, words, msg) ==
    /\ now' = Add32(now, d)
    /\ IF ~s_daq_state.is_initialized
       THEN /\ daq_result' = EHMS_ERROR_NOT_INIT
            /\ UNCHANGED <<s_daq_state, stamped>>
       ELSE \E r \in {EngineLoop(
                           [st |-> [s_daq_state EXCEPT
                                       !.current_time_ms = Add32(now, d),
                                       !.cycle_count = @ + 1],
                            stamps |-> stamped],
                           0, config_get_engine_count, words, msg, Add32(now, d))} :
               /\ s_daq_state' = r.st
               /\ stamped' = r.stamps
               /\ daq_result' = EHMS_OK
    /\ lastOp' = Op("daq_execute_cycle", 0, "none")
    /\ lastWords' = words
    /\ lastMsg' = msg
    /\ reported' = << >>
    /\ driver_inits' = << >>
    /\ UNCHANGED <<out_snapshot, out_param, alert_vars>>

(* ------------------------------------------------------------------ *)
(* data_acquisition.c: daq_init                                         *)
(* ------------------------------------------------------------------ *)
NoWords == [b \in Buses |-> [p \in ParamSet |-> WordFail]]

NoStamp == [done |-> FALSE, snap |-> ZeroSnapshot]

NoStamps == [e \in Engines |-> NoStamp]

NullConfig == [ptr |-> "NULL", sample_rate_hz |-> 0, engine_count |-> 0]

GoodConfig ==
    [ptr |-> "config", sample_rate_hz |-> 100, engine_count |-> config_get_engine_count]

ConfigInputs ==
    {NullConfig, GoodConfig, [GoodConfig EXCEPT !.sample_rate_hz = 200],
     [GoodConfig EXCEPT !.engine_count = 10]}

(* Mutation: the loop over the serial buses does not stop at a failure *)
DaqInit_NoBreak(config, first_fail, mux_result) ==
    LET result0 == IF config.ptr = "NULL" THEN EHMS_ERROR_PARAM
                   ELSE daq_validate_config(config)
        st1 == daq_init_sources(ZeroDaqState)
        result1 == IF result0 # EHMS_OK THEN result0
                   ELSE IF first_fail < EHMS_ARINC429_BUS_COUNT THEN EHMS_ERROR_HARDWARE
                   ELSE EHMS_OK
        arinc_inits == IF result0 # EHMS_OK THEN << >>
                       ELSE [i \in 1..EHMS_ARINC429_BUS_COUNT |->
                                [driver |-> "arinc429", bus |-> i - 1]]
        result2 == IF result1 = EHMS_OK THEN mux_result ELSE result1
    IN /\ s_daq_state' =
              IF result0 # EHMS_OK THEN s_daq_state
              ELSE IF result2 = EHMS_OK
              THEN [st1 EXCEPT !.is_initialized = TRUE, !.state = EHMS_STATE_INIT]
              ELSE st1
       /\ stamped' = IF result0 # EHMS_OK THEN stamped ELSE NoStamps
       /\ driver_inits' =
              IF result1 = EHMS_OK
              THEN arinc_inits \o <<[driver |-> "milstd1553", bus |-> 0]>>
              ELSE arinc_inits
       /\ reported' =
              IF result0 = EHMS_OK /\ result1 # EHMS_OK
              THEN <<[code |-> "ERR_CODE_INIT_FAILED", arg |-> first_fail]>>
              ELSE << >>
       /\ daq_result' = result2
       /\ lastOp' = Op("daq_init", 0, config.ptr)
       /\ UNCHANGED <<now, out_snapshot, out_param, lastWords, lastMsg, alert_vars>>

(* first_fail is the first serial bus whose arinc429_init fails (4: none), *)
(* mux_result what milstd1553_init returns                                 *)
DaqInit(config, first_fail, mux_result) ==
    LET result0 == IF config.ptr = "NULL" THEN EHMS_ERROR_PARAM
                   ELSE daq_validate_config(config)
        st1 == daq_init_sources(ZeroDaqState)
        result1 == IF result0 # EHMS_OK THEN result0
                   ELSE IF first_fail < EHMS_ARINC429_BUS_COUNT THEN EHMS_ERROR_HARDWARE
                   ELSE EHMS_OK
        arinc_inits == IF result0 # EHMS_OK THEN << >>
                       ELSE [i \in 1..(IF first_fail < EHMS_ARINC429_BUS_COUNT
                                       THEN first_fail + 1
                                       ELSE EHMS_ARINC429_BUS_COUNT) |->
                                [driver |-> "arinc429", bus |-> i - 1]]
        result2 == IF result1 = EHMS_OK THEN mux_result ELSE result1
    IN /\ s_daq_state' =
              IF result0 # EHMS_OK THEN s_daq_state
              ELSE IF result2 = EHMS_OK
              THEN [st1 EXCEPT !.is_initialized = TRUE, !.state = EHMS_STATE_INIT]
              ELSE st1
       /\ stamped' = IF result0 # EHMS_OK THEN stamped ELSE NoStamps
       /\ driver_inits' =
              IF result1 = EHMS_OK
              THEN arinc_inits \o <<[driver |-> "milstd1553", bus |-> 0]>>
              ELSE arinc_inits
       /\ reported' =
              IF result0 = EHMS_OK /\ result1 # EHMS_OK
              THEN <<[code |-> "ERR_CODE_INIT_FAILED", arg |-> first_fail]>>
              ELSE << >>
       /\ daq_result' = result2
       /\ lastOp' = Op("daq_init", 0, config.ptr)
       /\ UNCHANGED <<now, out_snapshot, out_param, lastWords, lastMsg, alert_vars>>

(* ------------------------------------------------------------------ *)
(* data_acquisition.c: daq_get_engine_snapshot                          *)
(* ------------------------------------------------------------------ *)
(* Mutation: the comparison inverted *)
CrcMatches_Inverted(snap) == daq_calculate_crc32(Payload(snap)) # snap.crc32

CrcMatches(snap) == daq_calculate_crc32(Payload(snap)) = snap.crc32

(* snapshot is "NULL" or "buffer", the caller's out_snapshot *)
DaqGetEngineSnapshot(engine_id, snapshot) ==
    \E result \in {IF snapshot = "NULL" THEN EHMS_ERROR_PARAM
                   ELSE IF engine_id >= EHMS_ENGINE_COUNT THEN EHMS_ERROR_RANGE
                   ELSE IF ~s_daq_state.is_initialized THEN EHMS_ERROR_NOT_INIT
                   ELSE IF ~CrcMatches(s_daq_state.engine_data[engine_id])
                   THEN EHMS_ERROR_CRC
                   ELSE EHMS_OK} :
       /\ daq_result' = result
       /\ reported' = IF result = EHMS_ERROR_CRC
                      THEN <<[code |-> "ERR_CODE_CRC_MISMATCH", arg |-> engine_id]>>
                      ELSE << >>
       /\ out_snapshot' = IF result = EHMS_OK
                          THEN [written |-> TRUE,
                                data |-> s_daq_state.engine_data[engine_id]]
                          ELSE out_snapshot
       /\ lastOp' = Op("daq_get_engine_snapshot", engine_id, snapshot)
       /\ driver_inits' = << >>
       /\ UNCHANGED <<s_daq_state, now, out_param, lastWords, lastMsg, stamped, alert_vars>>

(* ------------------------------------------------------------------ *)
(* data_acquisition.c: daq_get_parameter                                *)
(* ------------------------------------------------------------------ *)
(* Mutation: the ranges are checked before the pointer *)
ParameterResult_RangeFirst(engine_id, param_id, param) ==
    IF engine_id >= EHMS_ENGINE_COUNT \/ param_id >= EHMS_PARAM_COUNT
    THEN EHMS_ERROR_RANGE
    ELSE IF param = "NULL" THEN EHMS_ERROR_PARAM
    ELSE IF ~s_daq_state.is_initialized THEN EHMS_ERROR_NOT_INIT
    ELSE EHMS_OK

(* Mutation: the initialisation is not checked *)
ParameterResult_NoInitCheck(engine_id, param_id, param) ==
    IF param = "NULL" THEN EHMS_ERROR_PARAM
    ELSE IF engine_id >= EHMS_ENGINE_COUNT \/ param_id >= EHMS_PARAM_COUNT
    THEN EHMS_ERROR_RANGE
    ELSE EHMS_OK

ParameterResult(engine_id, param_id, param) ==
    IF param = "NULL" THEN EHMS_ERROR_PARAM
    ELSE IF engine_id >= EHMS_ENGINE_COUNT \/ param_id >= EHMS_PARAM_COUNT
    THEN EHMS_ERROR_RANGE
    ELSE IF ~s_daq_state.is_initialized THEN EHMS_ERROR_NOT_INIT
    ELSE EHMS_OK

(* param is "NULL" or "buffer", the caller's out_param *)
DaqGetParameter(engine_id, param_id, param) ==
    \E result \in {ParameterResult(engine_id, param_id, param)} :
       /\ daq_result' = result
       /\ out_param' = IF result = EHMS_OK
                       THEN [written |-> TRUE,
                             data |-> s_daq_state.engine_data[engine_id].parameters[param_id]]
                       ELSE out_param
       /\ lastOp' = [op |-> "daq_get_parameter", arg |-> engine_id, ptr |-> param,
                     param_id |-> param_id]
       /\ reported' = << >>
       /\ driver_inits' = << >>
       /\ UNCHANGED <<s_daq_state, now, out_snapshot, lastWords, lastMsg, stamped,
                      alert_vars>>

(* ------------------------------------------------------------------ *)
(* alert_manager.c                                                      *)
(* ------------------------------------------------------------------ *)
Threshold(id, level, threshold, high_limit, ecam_code, message) ==
    [param_id |-> id, level |-> level, threshold |-> threshold,
     high_limit |-> high_limit, ecam_code |-> ecam_code, message |-> message]

(* s_thresholds[]: thresholds in thousandths, ECAM codes in decimal *)
s_thresholds ==
    <<Threshold(EHMS_PARAM_EGT, EHMS_ALERT_CAUTION, 950000, TRUE, 4097, "ENG %d EGT HIGH"),
      Threshold(EHMS_PARAM_EGT, EHMS_ALERT_WARNING, 1000000, TRUE, 4098, "ENG %d EGT OVERLIMIT"),
      Threshold(EHMS_PARAM_OIL_PRESS, EHMS_ALERT_CAUTION, 25000, FALSE, 8193, "ENG %d OIL PRESS LO"),
      Threshold(EHMS_PARAM_OIL_PRESS, EHMS_ALERT_WARNING, 15000, FALSE, 8194, "ENG %d OIL PRESS CRIT"),
      Threshold(EHMS_PARAM_OIL_TEMP, EHMS_ALERT_CAUTION, 140000, TRUE, 8195, "ENG %d OIL TEMP HI"),
      Threshold(EHMS_PARAM_OIL_TEMP, EHMS_ALERT_WARNING, 155000, TRUE, 8196, "ENG %d OIL TEMP CRIT"),
      Threshold(EHMS_PARAM_VIB_FAN, EHMS_ALERT_CAUTION, 3000, TRUE, 12289, "ENG %d FAN VIB HI"),
      Threshold(EHMS_PARAM_VIB_FAN, EHMS_ALERT_WARNING, 5000, TRUE, 12290, "ENG %d FAN VIB CRIT"),
      Threshold(EHMS_PARAM_VIB_CORE, EHMS_ALERT_CAUTION, 4000, TRUE, 12291, "ENG %d CORE VIB HI"),
      Threshold(EHMS_PARAM_VIB_CORE, EHMS_ALERT_WARNING, 6000, TRUE, 12292, "ENG %d CORE VIB CRIT"),
      Threshold(EHMS_PARAM_N1, EHMS_ALERT_WARNING, 104000, TRUE, 16385, "ENG %d N1 OVERLIMIT"),
      Threshold(EHMS_PARAM_N2, EHMS_ALERT_WARNING, 105000, TRUE, 16386, "ENG %d N2 OVERLIMIT")>>

NUM_THRESHOLDS == Len(s_thresholds)

(* The parameter slots the thresholds look at *)
AlertParamSet == {s_thresholds[t].param_id : t \in 1..NUM_THRESHOLDS}

AlertSlots == 0..(EHMS_MAX_ACTIVE_ALERTS - 1)

ZeroAlert ==
    [alert_id |-> 0, level |-> EHMS_ALERT_NONE, engine_id |-> 0, param_id |-> 0,
     onset_time |-> <<0, 0>>, clear_time |-> <<0, 0>>, is_active |-> FALSE,
     is_latched |-> FALSE, is_inhibited |-> FALSE,
     message |-> [format |-> "", engine |-> 0], ecam_code |-> 0]

(* static alert_state_t s_alert_state: zero before alert_init runs *)
ZeroAlertState ==
    [alerts |-> [a \in AlertSlots |-> ZeroAlert], active_count |-> 0,
     next_alert_id |-> 0, master_caution |-> FALSE, master_warning |-> FALSE,
     highest_level |-> EHMS_ALERT_NONE]

(* published: the eicas_post_message and recorder_log_alert calls, in order; *)
(* repeated: exceedances found already active; dropped: exceedances that    *)
(* were not active and found no free slot; receded: rows whose Valid       *)
(* value was not beyond the threshold; calm: how many snapshots of this    *)
(* engine in a row, this one included, had every row receded               *)
NoAlertTrace ==
    [published |-> << >>, repeated |-> 0, dropped |-> 0, receded |-> 0, calm |-> 0]

NullSnapshot == [ptr |-> "NULL", data |-> ZeroSnapshot]

AlertInit ==
    /\ s_alert_state' = [ZeroAlertState EXCEPT !.next_alert_id = 1,
                                               !.highest_level = EHMS_ALERT_NONE]
    /\ alert_result' = EHMS_OK
    /\ alert_trace' = NoAlertTrace
    /\ lastSnapshot' = NullSnapshot
    /\ lastOp' = Op("alert_init", 0, "none")
    /\ UNCHANGED daq_vars

(* Mutation: strict comparisons *)
Exceeded_Strict(thresh, param) ==
    IF thresh.high_limit
    THEN param.eng_value > thresh.threshold
    ELSE param.eng_value < thresh.threshold

Exceeded(thresh, param) ==
    IF thresh.high_limit
    THEN param.eng_value >= thresh.threshold
    ELSE param.eng_value <= thresh.threshold

(* Mutation: the engine compared by its display number *)
AlreadyActive_DisplayNumber(st, thresh, snapshot) ==
    \E a \in AlertSlots :
        /\ a < st.active_count
        /\ st.alerts[a].param_id = thresh.param_id
        /\ st.alerts[a].engine_id = snapshot.engine_id + 1
        /\ st.alerts[a].level = thresh.level

(* Mutation: the scan stops after alerts[0] *)
AlreadyActive_FirstSlotOnly(st, thresh, snapshot) ==
    /\ 0 < st.active_count
    /\ st.alerts[0].param_id = thresh.param_id
    /\ st.alerts[0].engine_id = snapshot.engine_id
    /\ st.alerts[0].level = thresh.level

(* The scan of alerts[0 .. active_count - 1] for the same parameter, engine and level *)
AlreadyActive(st, thresh, snapshot) ==
    \E a \in AlertSlots :
        /\ a < st.active_count
        /\ st.alerts[a].param_id = thresh.param_id
        /\ st.alerts[a].engine_id = snapshot.engine_id
        /\ st.alerts[a].level = thresh.level

(* Mutation: <= in place of < *)
HasRoom_Inclusive(st) == st.active_count <= EHMS_MAX_ACTIVE_ALERTS

HasRoom(st) == st.active_count < EHMS_MAX_ACTIVE_ALERTS

(* The fields written into the slot new_alert points to *)
NewAlert(slot, st, thresh, snapshot) ==
    [slot EXCEPT !.alert_id = st.next_alert_id,
                 !.level = thresh.level,
                 !.engine_id = snapshot.engine_id,
                 !.param_id = thresh.param_id,
                 !.onset_time = snapshot.sample_time,
                 !.is_active = TRUE,
                 !.is_latched = (thresh.level >= EHMS_ALERT_WARNING),
                 !.ecam_code = thresh.ecam_code,
                 !.message = [format |-> thresh.message,
                              engine |-> snapshot.engine_id + 1]]

(* Mutation: a Caution raises the master warning *)
MasterUpdate_CautionAsWarning(st, level) ==
    IF level >= EHMS_ALERT_CAUTION THEN [st EXCEPT !.master_warning = TRUE]
    ELSE st

MasterUpdate(st, level) ==
    IF level >= EHMS_ALERT_WARNING THEN [st EXCEPT !.master_warning = TRUE]
    ELSE IF level >= EHMS_ALERT_CAUTION THEN [st EXCEPT !.master_caution = TRUE]
    ELSE st

HighestUpdate(st, level) ==
    IF level > st.highest_level THEN [st EXCEPT !.highest_level = level] ELSE st

(* Mutation: the id counter is not advanced *)
CreateAlert_SameId(acc, thresh, snapshot) ==
    LET stored == [acc.st EXCEPT
                      !.alerts[acc.st.active_count] =
                          NewAlert(@, acc.st, thresh, snapshot),
                      !.active_count = @ + 1]
    IN [st |-> HighestUpdate(MasterUpdate(stored, thresh.level), thresh.level),
        trace |-> [acc.trace EXCEPT !.published =
                      @ \o <<[sink |-> "eicas", alert_id |-> acc.st.next_alert_id],
                             [sink |-> "recorder", alert_id |-> acc.st.next_alert_id]>>]]

(* The creation branch: acc is the module state and the trace so far *)
CreateAlert(acc, thresh, snapshot) ==
    LET stored == [acc.st EXCEPT
                      !.alerts[acc.st.active_count] =
                          NewAlert(@, acc.st, thresh, snapshot),
                      !.next_alert_id = @ + 1,
                      !.active_count = @ + 1]
    IN [st |-> HighestUpdate(MasterUpdate(stored, thresh.level), thresh.level),
        trace |-> [acc.trace EXCEPT !.published =
                      @ \o <<[sink |-> "eicas", alert_id |-> acc.st.next_alert_id],
                             [sink |-> "recorder", alert_id |-> acc.st.next_alert_id]>>]]

(* Mutation: only Stale parameters are skipped *)
ThresholdStep_SkipsStaleOnly(acc, thresh, snapshot) ==
    LET param == snapshot.parameters[thresh.param_id]
    IN IF param.status = EHMS_PARAM_STALE THEN acc
       ELSE IF ~Exceeded(thresh, param) THEN [acc EXCEPT !.trace.receded = @ + 1]
       ELSE IF AlreadyActive(acc.st, thresh, snapshot)
       THEN [acc EXCEPT !.trace.repeated = @ + 1]
       ELSE IF HasRoom(acc.st) THEN CreateAlert(acc, thresh, snapshot)
       ELSE [acc EXCEPT !.trace.dropped = @ + 1]

(* The body of the threshold loop for one row *)
ThresholdStep(acc, thresh, snapshot) ==
    LET param == snapshot.parameters[thresh.param_id]
    IN IF param.status # EHMS_PARAM_VALID THEN acc
       ELSE IF ~Exceeded(thresh, param) THEN [acc EXCEPT !.trace.receded = @ + 1]
       ELSE IF AlreadyActive(acc.st, thresh, snapshot)
       THEN [acc EXCEPT !.trace.repeated = @ + 1]
       ELSE IF HasRoom(acc.st) THEN CreateAlert(acc, thresh, snapshot)
       ELSE [acc EXCEPT !.trace.dropped = @ + 1]

RECURSIVE ThresholdLoop(_, _, _)
ThresholdLoop(acc, t, snapshot) ==
    IF t > NUM_THRESHOLDS THEN acc
    ELSE ThresholdLoop(ThresholdStep(acc, s_thresholds[t], snapshot), t + 1, snapshot)

(* The run of snapshots of one engine with nothing beyond a threshold,    *)
(* counted up to ALERT_DEBOUNCE_CYCLES                                     *)
Calm(trace, snapshot) ==
    IF snapshot.ptr = "NULL" \/ trace.receded < NUM_THRESHOLDS THEN 0
    ELSE IF /\ lastOp = Op("alert_process_snapshot", snapshot.data.engine_id, "snapshot")
            /\ alert_trace.calm > 0
    THEN IF alert_trace.calm < ALERT_DEBOUNCE_CYCLES THEN alert_trace.calm + 1
         ELSE ALERT_DEBOUNCE_CYCLES
    ELSE 1

(* snapshot.ptr is "NULL" or "snapshot"; snapshot.data is what it points to *)
AlertProcessSnapshot(snapshot) ==
    /\ \E r \in {IF snapshot.ptr = "NULL"
                 THEN [st |-> s_alert_state, trace |-> NoAlertTrace]
                 ELSE ThresholdLoop([st |-> s_alert_state, trace |-> NoAlertTrace],
                                    1, snapshot.data)} :
          /\ s_alert_state' = r.st
          /\ alert_trace' = [r.trace EXCEPT !.calm = Calm(r.trace, snapshot)]
    /\ lastSnapshot' = snapshot
    /\ alert_result' = IF snapshot.ptr = "NULL" THEN EHMS_ERROR_PARAM ELSE EHMS_OK
    /\ lastOp' = Op("alert_process_snapshot", snapshot.data.engine_id, snapshot.ptr)
    /\ UNCHANGED daq_vars

(* Mutation: the acknowledgement also takes back the highest level *)
AlertAcknowledge_ResetsHighest(level) ==
    /\ s_alert_state' =
           IF level >= EHMS_ALERT_WARNING
           THEN [s_alert_state EXCEPT !.master_warning = FALSE,
                                      !.highest_level = EHMS_ALERT_NONE]
           ELSE IF level >= EHMS_ALERT_CAUTION
           THEN [s_alert_state EXCEPT !.master_caution = FALSE,
                                      !.highest_level = EHMS_ALERT_NONE]
           ELSE s_alert_state
    /\ alert_result' = EHMS_OK
    /\ alert_trace' = NoAlertTrace
    /\ lastSnapshot' = NullSnapshot
    /\ lastOp' = Op("alert_acknowledge", level, "none")
    /\ UNCHANGED daq_vars

AlertAcknowledge(level) ==
    /\ s_alert_state' =
           IF level >= EHMS_ALERT_WARNING
           THEN [s_alert_state EXCEPT !.master_warning = FALSE]
           ELSE IF level >= EHMS_ALERT_CAUTION
           THEN [s_alert_state EXCEPT !.master_caution = FALSE]
           ELSE s_alert_state
    /\ alert_result' = EHMS_OK
    /\ alert_trace' = NoAlertTrace
    /\ lastSnapshot' = NullSnapshot
    /\ lastOp' = Op("alert_acknowledge", level, "none")
    /\ UNCHANGED daq_vars

(* The snapshots handed to the alert manager: every threshold parameter  *)
(* of one engine at its caution threshold (N1 and N2, which have none,  *)
(* just under their warning thresholds) or at its warning threshold,     *)
(* valid or stale                                                        *)
CautionValue(p) ==
    CASE p = EHMS_PARAM_EGT       -> 950000
      [] p = EHMS_PARAM_OIL_PRESS -> 25000
      [] p = EHMS_PARAM_OIL_TEMP  -> 140000
      [] p = EHMS_PARAM_VIB_FAN   -> 3000
      [] p = EHMS_PARAM_VIB_CORE  -> 4000
      [] p = EHMS_PARAM_N1        -> 103999
      [] OTHER                    -> 104999

WarningValue(p) ==
    CASE p = EHMS_PARAM_EGT       -> 1000000
      [] p = EHMS_PARAM_OIL_PRESS -> 15000
      [] p = EHMS_PARAM_OIL_TEMP  -> 155000
      [] p = EHMS_PARAM_VIB_FAN   -> 5000
      [] p = EHMS_PARAM_VIB_CORE  -> 6000
      [] p = EHMS_PARAM_N1        -> 104000
      [] OTHER                    -> 105000

(* Well inside every threshold, by more than ALERT_HYSTERESIS_PERCENT *)
NormalValue(p) ==
    CASE p = EHMS_PARAM_EGT       -> 600000
      [] p = EHMS_PARAM_OIL_PRESS -> 50000
      [] p = EHMS_PARAM_OIL_TEMP  -> 90000
      [] p = EHMS_PARAM_VIB_FAN   -> 1000
      [] p = EHMS_PARAM_VIB_CORE  -> 1000
      [] p = EHMS_PARAM_N1        -> 85000
      [] OTHER                    -> 90000

Profiles == {"caution", "warning", "stale"}

(* Further snapshots: every parameter Valid and well inside its         *)
(* thresholds ("normal"); every parameter at its warning threshold with *)
(* a status other than Valid or Stale; EGT and oil pressure Stale at     *)
(* their warning thresholds with the rest Valid there ("mixed")          *)
OtherProfiles == {"normal", "failed", "ncd", "test", "mixed"}

ProfileValue(profile, p) ==
    IF profile = "caution" THEN CautionValue(p)
    ELSE IF profile = "normal" THEN NormalValue(p)
    ELSE WarningValue(p)

ProfileStatus(profile, p) ==
    CASE profile = "stale"  -> EHMS_PARAM_STALE
      [] profile = "failed" -> EHMS_PARAM_FAILED
      [] profile = "ncd"    -> EHMS_PARAM_NCD
      [] profile = "test"   -> EHMS_PARAM_TEST
      [] profile = "mixed"  -> IF p \in {EHMS_PARAM_EGT, EHMS_PARAM_OIL_PRESS}
                               THEN EHMS_PARAM_STALE ELSE EHMS_PARAM_VALID
      [] OTHER              -> EHMS_PARAM_VALID

AlertSnapshot(engine_id, profile) ==
    [engine_id |-> engine_id, sample_time |-> <<0, 10>>, flight_phase |-> 0,
     parameters |->
         [p \in AlertParamSet |->
             [param_id |-> p,
              status |-> ProfileStatus(profile, p),
              raw_value |-> 0, eng_value |-> ProfileValue(profile, p),
              timestamp |-> <<0, 10>>, source_bus |-> 0]],
     health_status |-> 0, crc32 |-> <<0, 0>>]

AlertEngines == 0..(MaxAlertEngines - 1)

SnapshotInputs ==
    {NullSnapshot} \cup
    {[ptr |-> "snapshot", data |-> AlertSnapshot(e, profile)] :
        e \in AlertEngines, profile \in Profiles}

(* Snapshots of every profile for the first MaxRecedeEngines engines *)
RecedeInputs ==
    {NullSnapshot} \cup
    {[ptr |-> "snapshot", data |-> AlertSnapshot(e, profile)] :
        e \in 0..(MaxRecedeEngines - 1), profile \in Profiles \cup OtherProfiles}

(* ------------------------------------------------------------------ *)
(* The cyclic executive                                                 *)
(* ------------------------------------------------------------------ *)

(* Mutation: every stored snapshot passes the integrity check *)
SnapshotResult_NoCrcCheck(engine_id, snapshot) ==
    IF snapshot = "NULL" THEN EHMS_ERROR_PARAM
    ELSE IF engine_id >= EHMS_ENGINE_COUNT THEN EHMS_ERROR_RANGE
    ELSE IF ~s_daq_state.is_initialized THEN EHMS_ERROR_NOT_INIT
    ELSE EHMS_OK

(* What daq_get_engine_snapshot returns in the current state *)
SnapshotResult(engine_id, snapshot) ==
    IF snapshot = "NULL" THEN EHMS_ERROR_PARAM
    ELSE IF engine_id >= EHMS_ENGINE_COUNT THEN EHMS_ERROR_RANGE
    ELSE IF ~s_daq_state.is_initialized THEN EHMS_ERROR_NOT_INIT
    ELSE IF ~CrcMatches(s_daq_state.engine_data[engine_id]) THEN EHMS_ERROR_CRC
    ELSE EHMS_OK

(* A slot no bus has delivered since daq_init: the zero sample of the   *)
(* memset, as the sweeps of the cycles leave it                          *)
UnreadSample ==
    daq_check_staleness(daq_validate_parameter(ZeroParam), s_daq_state.current_time_ms)

(* The snapshot as the alert manager indexes it: the slots the           *)
(* acquisition model does not carry are slots no bus has delivered       *)
HandedOver(snap) ==
    [snap EXCEPT !.parameters =
        [p \in ParamSet \cup AlertParamSet |->
            IF p \in ParamSet THEN snap.parameters[p] ELSE UnreadSample]]

(* One engine's hand-over in a tick: the executive reads the snapshot    *)
(* and gives it to the alert manager only if the read returned Ok        *)
ExecutiveHandOver(engine_id) ==
    \E result \in {SnapshotResult(engine_id, "buffer")} :
       /\ daq_result' = result
       /\ reported' = IF result = EHMS_ERROR_CRC
                      THEN <<[code |-> "ERR_CODE_CRC_MISMATCH", arg |-> engine_id]>>
                      ELSE << >>
       /\ out_snapshot' = IF result = EHMS_OK
                          THEN [written |-> TRUE,
                                data |-> s_daq_state.engine_data[engine_id]]
                          ELSE out_snapshot
       /\ \E r \in {IF result = EHMS_OK
                     THEN ThresholdLoop([st |-> s_alert_state, trace |-> NoAlertTrace], 1,
                                        HandedOver(s_daq_state.engine_data[engine_id]))
                     ELSE [st |-> s_alert_state, trace |-> NoAlertTrace]} :
             /\ s_alert_state' = r.st
             /\ alert_trace' = r.trace
       /\ alert_result' = IF result = EHMS_OK THEN EHMS_OK ELSE alert_result
       /\ lastSnapshot' =
              IF result = EHMS_OK
              THEN [ptr |-> "snapshot",
                    data |-> HandedOver(s_daq_state.engine_data[engine_id])]
              ELSE NullSnapshot
       /\ lastOp' = Op("hand_over", engine_id, "buffer")
       /\ driver_inits' = << >>
       /\ UNCHANGED <<s_daq_state, now, out_param, lastWords, lastMsg, stamped>>

(* ------------------------------------------------------------------ *)
(* Environment                                                          *)
(* ------------------------------------------------------------------ *)

(* An external actor changes a payload byte of a stored snapshot between *)
(* cycle completion and the next read                                    *)
Corrupt(e) ==
    /\ s_daq_state.is_initialized
    /\ e < config_get_engine_count
    /\ s_daq_state' = [s_daq_state EXCEPT !.engine_data[e].flight_phase = 1 - @]
    /\ lastOp' = Op("corrupt", e, "none")
    /\ reported' = << >>
    /\ driver_inits' = << >>
    /\ UNCHANGED <<now, daq_result, out_snapshot, out_param, lastWords, lastMsg, stamped,
                   alert_vars>>

ClockStart == <<0, 0>>

Elapsed == Sub32(now, ClockStart)

TimeLeft(d, horizon) == ~Gt32(Add32(Elapsed, d), horizon)

(* DAQ_CYCLE_PERIOD_US / 1000 *)
DAQ_CYCLE_PERIOD_MS == 10

Init ==
    /\ s_daq_state = ZeroDaqState
    /\ now = ClockStart
    /\ daq_result = EHMS_OK
    /\ out_snapshot = [written |-> FALSE, data |-> ZeroSnapshot]
    /\ out_param = [written |-> FALSE, data |-> ZeroParam]
    /\ reported = << >>
    /\ lastOp = Op("none", 0, "none")
    /\ lastWords = NoWords
    /\ lastMsg = MsgFail
    /\ stamped = NoStamps
    /\ driver_inits = << >>
    /\ s_alert_state = ZeroAlertState
    /\ alert_result = EHMS_OK
    /\ alert_trace = NoAlertTrace
    /\ lastSnapshot = NullSnapshot

(* The acquisition cycle with every bus answering or not *)
Next ==
    \/ DaqInit(GoodConfig, EHMS_ARINC429_BUS_COUNT, EHMS_OK)
    \/ \E words \in WordInputs, msg \in MsgInputs :
          /\ TimeLeft(DAQ_CYCLE_PERIOD_MS, MaxBusTime)
          /\ DaqExecuteCycle(DAQ_CYCLE_PERIOD_MS, words, msg)

Spec == Init /\ [][Next]_vars

(* The acquisition cycle over more than the staleness timeout *)
NextStale ==
    \/ DaqInit(GoodConfig, EHMS_ARINC429_BUS_COUNT, EHMS_OK)
    \/ \E words \in N1WordInputs, msg \in MsgInputs :
          /\ TimeLeft(DAQ_CYCLE_PERIOD_MS, MaxTime)
          /\ DaqExecuteCycle(DAQ_CYCLE_PERIOD_MS, words, msg)

SpecStale == Init /\ [][NextStale]_vars

(* Readers and an external actor between the cycles; a cycle can run  *)
(* again within the same millisecond                                   *)
NextRead ==
    \/ \E config \in ConfigInputs, first_fail \in {1, EHMS_ARINC429_BUS_COUNT},
          mux_result \in {EHMS_OK, EHMS_ERROR_HARDWARE} :
          DaqInit(config, first_fail, mux_result)
    \/ \E d \in {0, DAQ_CYCLE_PERIOD_MS}, w1 \in {WordFail, WordOk(850)} :
          /\ TimeLeft(d, MaxReadTime)
          /\ s_daq_state.cycle_count < MaxReadCycles
          /\ DaqExecuteCycle(d, Words(w1, WordFail, WordFail), MsgFail)
    \/ \E engine_id \in {0, EHMS_ENGINE_COUNT - 1, EHMS_ENGINE_COUNT},
          snapshot \in {"NULL", "buffer"} :
          DaqGetEngineSnapshot(engine_id, snapshot)
    \/ Corrupt(0)

SpecRead == Init /\ [][NextRead]_vars

(* Start-up with every configuration and driver outcome, one cycle, and *)
(* the readers with good and bad arguments                               *)
NextArgs ==
    \/ \E config \in ConfigInputs, first_fail \in {1, EHMS_ARINC429_BUS_COUNT},
          mux_result \in {EHMS_OK, EHMS_ERROR_HARDWARE} :
          DaqInit(config, first_fail, mux_result)
    \/ /\ TimeLeft(DAQ_CYCLE_PERIOD_MS, MaxReadTime)
       /\ DaqExecuteCycle(DAQ_CYCLE_PERIOD_MS,
                           Words(WordOk(850), WordFail, WordFail), MsgFail)
    \/ \E engine_id \in {0, EHMS_ENGINE_COUNT}, snapshot \in {"NULL", "buffer"} :
          DaqGetEngineSnapshot(engine_id, snapshot)
    \/ \E engine_id \in {0, EHMS_ENGINE_COUNT},
          param_id \in {EHMS_PARAM_N1, EHMS_PARAM_COUNT}, param \in {"NULL", "buffer"} :
          DaqGetParameter(engine_id, param_id, param)

SpecArgs == Init /\ [][NextArgs]_vars

(* Start-up, acquisition in which the serial bus delivers N1 or nothing, *)
(* and the readers: daq_get_parameter and the hand-over to the alert      *)
(* manager                                                                *)
NextUnread ==
    \/ /\ ~s_daq_state.is_initialized
       /\ DaqInit(GoodConfig, EHMS_ARINC429_BUS_COUNT, EHMS_OK)
    \/ /\ s_alert_state.next_alert_id = 0
       /\ AlertInit
    \/ \E d \in {0, DAQ_CYCLE_PERIOD_MS}, w1 \in {WordFail, WordOk(850)} :
          /\ TimeLeft(d, MaxReadTime)
          /\ s_daq_state.cycle_count < MaxReadCycles
          /\ DaqExecuteCycle(d, Words(w1, WordFail, WordFail), MsgFail)
    \/ \E engine_id \in 0..(config_get_engine_count - 1) : ExecutiveHandOver(engine_id)
    \/ \E param_id \in {EHMS_PARAM_N1, EHMS_PARAM_COUNT - 1} :
          DaqGetParameter(0, param_id, "buffer")

SpecUnread == Init /\ [][NextUnread]_vars

(* The millisecond clock reads 2^32 - WrapLead when the module starts *)
WrapStart == <<65535, 65536 - WrapLead>>

InitWrap ==
    /\ s_daq_state = ZeroDaqState
    /\ now = WrapStart
    /\ daq_result = EHMS_OK
    /\ out_snapshot = [written |-> FALSE, data |-> ZeroSnapshot]
    /\ out_param = [written |-> FALSE, data |-> ZeroParam]
    /\ reported = << >>
    /\ lastOp = Op("none", 0, "none")
    /\ lastWords = NoWords
    /\ lastMsg = MsgFail
    /\ stamped = NoStamps
    /\ driver_inits = << >>
    /\ s_alert_state = ZeroAlertState
    /\ alert_result = EHMS_OK
    /\ alert_trace = NoAlertTrace
    /\ lastSnapshot = NullSnapshot

(* The acquisition cycle while the millisecond clock wraps at 2^32 *)
NextWrap ==
    \/ DaqInit(GoodConfig, EHMS_ARINC429_BUS_COUNT, EHMS_OK)
    \/ \E w1 \in {WordFail, WordOk(850)} :
          /\ ~Gt32(Add32(Sub32(now, WrapStart), DAQ_CYCLE_PERIOD_MS), MaxWrapTime)
          /\ DaqExecuteCycle(DAQ_CYCLE_PERIOD_MS, Words(w1, WordFail, WordFail), MsgFail)

SpecWrap == InitWrap /\ [][NextWrap]_vars

(* Fan vibration 2.0 is within its limits, 11.0 is above them and within *)
(* the limits of N1                                                      *)
LimitMsgInputs == {MsgFail, MsgOk(2000, 0), MsgOk(11000, 0)}

(* The acquisition cycle with values inside and outside the limits *)
NextLimits ==
    \/ DaqInit(GoodConfig, EHMS_ARINC429_BUS_COUNT, EHMS_OK)
    \/ \E words \in N1WordInputs, msg \in LimitMsgInputs :
          /\ TimeLeft(DAQ_CYCLE_PERIOD_MS, MaxBusTime)
          /\ DaqExecuteCycle(DAQ_CYCLE_PERIOD_MS, words, msg)

SpecLimits == Init /\ [][NextLimits]_vars

(* Start-up, acquisition, an external actor and the hand-over to the    *)
(* alert manager; N1 110.0 % is within its limits and above its alert    *)
(* threshold, fan vibration 4.0 is above its caution threshold           *)
NextTick ==
    \/ /\ ~s_daq_state.is_initialized
       /\ DaqInit(GoodConfig, EHMS_ARINC429_BUS_COUNT, EHMS_OK)
    \/ /\ s_alert_state.next_alert_id = 0
       /\ AlertInit
    \/ \E d \in {0, DAQ_CYCLE_PERIOD_MS}, w1 \in {WordFail, WordOk(1100)},
          msg \in {MsgFail, MsgOk(4000, 0)} :
          /\ TimeLeft(d, MaxReadTime)
          /\ s_daq_state.cycle_count < MaxReadCycles
          /\ DaqExecuteCycle(d, Words(w1, WordOk(7), WordFail), msg)
    \/ \E engine_id \in 0..(config_get_engine_count - 1) : ExecutiveHandOver(engine_id)
    \/ Corrupt(0)

SpecTick == Init /\ [][NextTick]_vars

(* The alert manager *)
NextAlert ==
    \/ AlertInit
    \/ \E snapshot \in SnapshotInputs : AlertProcessSnapshot(snapshot)
    \/ \E level \in EHMS_ALERT_ADVISORY..EHMS_ALERT_WARNING : AlertAcknowledge(level)

SpecAlert == Init /\ [][NextAlert]_vars

(* The alert manager with exceedances that go away and parameters that   *)
(* are not Valid                                                          *)
NextRecede ==
    \/ AlertInit
    \/ \E snapshot \in RecedeInputs : AlertProcessSnapshot(snapshot)
    \/ \E level \in EHMS_ALERT_NONE..EHMS_ALERT_WARNING : AlertAcknowledge(level)

SpecRecede == Init /\ [][NextRecede]_vars

(* ------------------------------------------------------------------ *)
(* Properties                                                           *)
(* ------------------------------------------------------------------ *)
ConfiguredEngines == 0..(config_get_engine_count - 1)

CycleCompleted == lastOp.op = "daq_execute_cycle" /\ daq_result = EHMS_OK

(* The age the sweep of the last cycle measured for a parameter *)
SampleAge(param) ==
    Sub32(s_daq_state.current_time_ms, timestamp_to_ms(param.timestamp))

PayloadCrc(snap) == daq_calculate_crc32(Payload(snap))

(* C1: after a cycle that completed on an initialised module, the stored *)
(* crc32 of every configured engine equals the CRC-32 of its payload as  *)
(* it stands at the end of the cycle, sample_time included, so that a    *)
(* read that follows at once returns Ok.                                  *)
C1_StoredCrcCoversPayload ==
    CycleCompleted =>
        \A e \in ConfiguredEngines :
            PayloadCrc(s_daq_state.engine_data[e]) = s_daq_state.engine_data[e].crc32

ReadCompleted ==
    /\ lastOp.op = "daq_get_engine_snapshot"
    /\ lastOp.ptr = "buffer"
    /\ lastOp.arg < EHMS_ENGINE_COUNT
    /\ s_daq_state.is_initialized

(* A payload field of engine e differs from what the CRC was computed over *)
ChangedSinceStamp(e) ==
    /\ stamped[e].done
    /\ [s_daq_state.engine_data[e] EXCEPT !.crc32 = <<0, 0>>]
         # [stamped[e].snap EXCEPT !.crc32 = <<0, 0>>]

C2_ReadOutcome ==
    ReadCompleted =>
        LET e == lastOp.arg
            snap == s_daq_state.engine_data[e]
        IN /\ daq_result = EHMS_OK <=> PayloadCrc(snap) = snap.crc32
           /\ daq_result = EHMS_OK =>
                 /\ out_snapshot = [written |-> TRUE, data |-> snap]
                 /\ reported = << >>
           /\ daq_result # EHMS_OK =>
                 /\ daq_result = EHMS_ERROR_CRC
                 /\ reported = <<[code |-> "ERR_CODE_CRC_MISMATCH", arg |-> e]>>
           /\ ChangedSinceStamp(e) => daq_result = EHMS_ERROR_CRC

C2_RejectedReadLeavesBuffer ==
    (lastOp'.op = "daq_get_engine_snapshot" /\ daq_result' # EHMS_OK)
        => out_snapshot' = out_snapshot

(* C2: a read of an initialised module with a valid engine id and a      *)
(* buffer returns Ok and copies the snapshot iff the stored crc32 equals *)
(* the CRC recomputed over the payload; if a payload field changed after *)
(* the CRC was stamped it returns the CRC error, reports the mismatch    *)
(* with the engine id, and leaves the caller's buffer as it was.         *)
C2_ReadChecksCrc == []C2_ReadOutcome /\ [][C2_RejectedReadLeavesBuffer]_vars

(* C2 witness: after a read that copied the snapshot, one payload field  *)
(* was changed and the next read was rejected                            *)
C2_CorruptedReadRejected ==
    /\ ReadCompleted
    /\ daq_result = EHMS_ERROR_CRC
    /\ out_snapshot.written
    /\ stamped[lastOp.arg].done
    /\ s_daq_state.engine_data[lastOp.arg].sample_time
         = stamped[lastOp.arg].snap.sample_time
    /\ s_daq_state.engine_data[lastOp.arg].flight_phase
         # stamped[lastOp.arg].snap.flight_phase

(* C3: if in a cycle the primary bus fails to deliver N1 and the backup  *)
(* bus delivers it, then at the end of the cycle N1 is Valid with        *)
(* source_bus the backup bus, the primary bus has counted an error and   *)
(* the backup bus has counted a sample without an error.                 *)
C3_BackupBusTakesOver ==
    (/\ CycleCompleted
     /\ lastWords[s_param_config(EHMS_PARAM_N1).bus_primary][EHMS_PARAM_N1].result # EHMS_OK
     /\ lastWords[s_param_config(EHMS_PARAM_N1).bus_backup][EHMS_PARAM_N1].result = EHMS_OK)
    => /\ \A e \in ConfiguredEngines :
             LET q == s_daq_state.engine_data[e].parameters[EHMS_PARAM_N1]
             IN /\ q.status = EHMS_PARAM_VALID
                /\ q.source_bus = s_param_config(EHMS_PARAM_N1).bus_backup
       /\ s_daq_state.sources[s_param_config(EHMS_PARAM_N1).bus_primary].error_samples > 0
       /\ s_daq_state.sources[s_param_config(EHMS_PARAM_N1).bus_backup].total_samples > 0
       /\ s_daq_state.sources[s_param_config(EHMS_PARAM_N1).bus_backup].error_samples = 0

(* C4: at the end of every completed cycle, every parameter of every     *)
(* configured engine whose status is Valid has an age, cycle time minus  *)
(* the time of its timestamp, of at most 100 ms.                         *)
C4_ValidIsFresh ==
    CycleCompleted =>
        \A e \in ConfiguredEngines, p \in ParamSet :
            LET q == s_daq_state.engine_data[e].parameters[p]
            IN q.status = EHMS_PARAM_VALID
                  => ~Gt32(SampleAge(q), DAQ_STALE_TIMEOUT_MS)

(* C4 witness: a cycle later than 100 ms after start-up that left one    *)
(* parameter Valid and marked another Stale                              *)
C4_SweepSeparatesFreshFromOld ==
    /\ CycleCompleted
    /\ Gt32(s_daq_state.current_time_ms, DAQ_STALE_TIMEOUT_MS)
    /\ \E e \in ConfiguredEngines :
          /\ s_daq_state.engine_data[e].parameters[EHMS_PARAM_N1].status
                = EHMS_PARAM_VALID
          /\ s_daq_state.engine_data[e].parameters[EHMS_PARAM_COUNT - 1].status
                = EHMS_PARAM_STALE

(* The bus answered for slot p in the last cycle *)
ReadSucceeded(p) ==
    IF p \in {EHMS_PARAM_VIB_FAN, EHMS_PARAM_VIB_CORE}
    THEN lastMsg.result = EHMS_OK
    ELSE lastWords[s_param_config(p).bus_primary][p].result = EHMS_OK

C5_UnreadParameterStep ==
    (lastOp'.op = "daq_execute_cycle" /\ daq_result' = EHMS_OK) =>
        \A e \in ConfiguredEngines, p \in ParamSet :
            LET before == s_daq_state.engine_data[e].parameters[p]
                after == s_daq_state'.engine_data[e].parameters[p]
                age == Sub32(s_daq_state'.current_time_ms,
                             timestamp_to_ms(after.timestamp))
            IN (before.status = EHMS_PARAM_VALID /\ ~ReadSucceeded(p)')
                  => after.status = IF Gt32(age, DAQ_STALE_TIMEOUT_MS)
                                    THEN EHMS_PARAM_STALE
                                    ELSE EHMS_PARAM_VALID

C5_StaleIsOld ==
    CycleCompleted =>
        \A e \in ConfiguredEngines, p \in ParamSet :
            LET q == s_daq_state.engine_data[e].parameters[p]
            IN q.status = EHMS_PARAM_STALE
                  => Gt32(SampleAge(q), DAQ_STALE_TIMEOUT_MS)

(* C5: a Valid parameter that gets no successful read in a cycle is      *)
(* Valid at the end of the cycle if its age is at most 100 ms, exactly   *)
(* 100 ms included, and Stale if its age is more; no parameter is Stale  *)
(* at an age of 100 ms or less, so with 10 ms cycles it turns Stale in   *)
(* the 11th cycle without a read, not the 10th.                          *)
C5_StaleAfterTimeout == [][C5_UnreadParameterStep]_vars /\ []C5_StaleIsOld

(* C5 witness: N1 was read once and is Stale at an age of 110 ms, the    *)
(* 11th cycle of 10 ms after the read                                    *)
C5_StaleInEleventhCycle ==
    /\ CycleCompleted
    /\ \E e \in ConfiguredEngines :
          LET q == s_daq_state.engine_data[e].parameters[EHMS_PARAM_N1]
          IN /\ q.timestamp # <<0, 0>>
             /\ q.status = EHMS_PARAM_STALE
             /\ SampleAge(q) = U32(DAQ_STALE_TIMEOUT_MS + DAQ_CYCLE_PERIOD_MS)

(* The engineering value of word data d for slot p lies within p's limits *)
WithinLimits(p, d) ==
    LET limits == param_db_get_limits(p)
        eng == d * s_param_config(p).scale_factor + s_param_config(p).offset
    IN limits.result = EHMS_OK => (eng >= limits.min_value /\ eng <= limits.max_value)

SameAlert(x, y) ==
    x.engine_id = y.engine_id /\ x.param_id = y.param_id /\ x.level = y.level

(* C7: after any sequence of alert_process_snapshot and                  *)
(* alert_acknowledge calls the active set holds at most one alert for    *)
(* each engine, parameter and level.                                     *)
C7_AlertsUnique ==
    \A a, b \in AlertSlots :
        (/\ a < b
         /\ b < s_alert_state.active_count
         /\ s_alert_state.alerts[a].is_active
         /\ s_alert_state.alerts[b].is_active)
        => ~SameAlert(s_alert_state.alerts[a], s_alert_state.alerts[b])

(* C7 witness: a snapshot repeated exceedances that were already active  *)
C7_RepeatedExceedance ==
    /\ lastOp.op = "alert_process_snapshot"
    /\ alert_trace.repeated > 0
    /\ s_alert_state.active_count > 1

ActiveAt(st, level) ==
    \E a \in AlertSlots :
        /\ a < st.active_count
        /\ st.alerts[a].is_active
        /\ st.alerts[a].level = level

(* C8 as stated, its state part: in every reachable state master_warning *)
(* is true iff an active alert has level Warning, and master_caution is  *)
(* true iff an active alert has level Caution.                           *)
C8_MasterIffActive ==
    /\ s_alert_state.master_warning <=> ActiveAt(s_alert_state, EHMS_ALERT_WARNING)
    /\ s_alert_state.master_caution <=> ActiveAt(s_alert_state, EHMS_ALERT_CAUTION)

C8_MasterStep ==
    /\ (s_alert_state.master_warning /\ ~s_alert_state'.master_warning)
          => \/ lastOp' = Op("alert_acknowledge", EHMS_ALERT_WARNING, "none")
             \/ lastOp'.op = "alert_init"
    /\ (s_alert_state.master_caution /\ ~s_alert_state'.master_caution)
          => \/ lastOp' = Op("alert_acknowledge", EHMS_ALERT_CAUTION, "none")
             \/ lastOp'.op = "alert_init"
    /\ (/\ ~ActiveAt(s_alert_state, EHMS_ALERT_WARNING)
        /\ ActiveAt(s_alert_state', EHMS_ALERT_WARNING))
          => s_alert_state'.master_warning
    /\ (/\ ~ActiveAt(s_alert_state, EHMS_ALERT_CAUTION)
        /\ ActiveAt(s_alert_state', EHMS_ALERT_CAUTION))
          => s_alert_state'.master_caution

(* C8 amended: master_warning is true only if an active alert has level  *)
(* Warning and master_caution only if an active alert has level Caution; *)
(* the first alert of a level sets that level's indicator; an indicator  *)
(* goes from true to false only by an alert_acknowledge at that level or *)
(* by alert_init, and an acknowledged alert stays active.                *)
C8_MasterImpliesActive ==
    /\ [](s_alert_state.master_warning => ActiveAt(s_alert_state, EHMS_ALERT_WARNING))
    /\ [](s_alert_state.master_caution => ActiveAt(s_alert_state, EHMS_ALERT_CAUTION))
    /\ [][C8_MasterStep]_vars

(* C8 witness: the Warning level was acknowledged and its alert is still *)
(* active with the indicator off                                         *)
C8_AcknowledgedStillActive ==
    /\ lastOp = Op("alert_acknowledge", EHMS_ALERT_WARNING, "none")
    /\ ~s_alert_state.master_warning
    /\ ActiveAt(s_alert_state, EHMS_ALERT_WARNING)

(* C9: when the active set already holds 32 alerts and a snapshot        *)
(* carries a further distinct exceedance, alert_process_snapshot returns *)
(* an error result, not Ok.                                              *)
C9_FullSetReturnsError ==
    (/\ lastOp.op = "alert_process_snapshot"
     /\ alert_trace.published = << >>
     /\ alert_trace.dropped > 0)
    => alert_result # EHMS_OK

C10_FullSetStep ==
    (/\ lastOp'.op = "alert_process_snapshot"
     /\ s_alert_state.active_count = EHMS_MAX_ACTIVE_ALERTS)
    => /\ s_alert_state' = s_alert_state
       /\ alert_trace'.published = << >>

(* C10: active_count never exceeds 32; a snapshot processed when the set *)
(* is full leaves active_count at 32, every alert record and the next    *)
(* alert id as they were, and publishes nothing.                         *)
C10_FullSetIsFrozen ==
    /\ [](s_alert_state.active_count <= EHMS_MAX_ACTIVE_ALERTS)
    /\ [][C10_FullSetStep]_vars

(* C10 witness: a further distinct exceedance met a full set              *)
C10_ExceedanceMetFullSet ==
    /\ lastOp.op = "alert_process_snapshot"
    /\ s_alert_state.active_count = EHMS_MAX_ACTIVE_ALERTS
    /\ alert_trace.dropped > 0
    /\ alert_trace.published = << >>
    /\ alert_trace.repeated > 0

(* The threshold rows a snapshot has beyond the threshold with status Valid *)
ExceededRows(snapshot) ==
    {t \in 1..NUM_THRESHOLDS :
        /\ snapshot.parameters[s_thresholds[t].param_id].status = EHMS_PARAM_VALID
        /\ Exceeded(s_thresholds[t], snapshot.parameters[s_thresholds[t].param_id])}

(* The slots filled by the step *)
NewSlots == s_alert_state.active_count .. (s_alert_state'.active_count - 1)

C11_FirstSnapshotStep ==
    (/\ lastOp.op = "alert_init"
     /\ lastOp'.op = "alert_process_snapshot")
    => /\ s_alert_state'.active_count = 0
       /\ ~s_alert_state'.master_caution
       /\ ~s_alert_state'.master_warning

(* C11: an alert is created only after its engine, parameter and level   *)
(* have been in exceedance in ALERT_DEBOUNCE_CYCLES consecutive          *)
(* processed snapshots; in particular the first snapshot processed after *)
(* alert_init, whatever it carries, creates no alert and sets no master  *)
(* indicator.                                                            *)
C11_DebouncedCreation == [][C11_FirstSnapshotStep]_vars

(* C12: once the Valid values of an engine have been inside every        *)
(* threshold, by more than ALERT_HYSTERESIS_PERCENT, in                  *)
(* ALERT_DEBOUNCE_CYCLES consecutive processed snapshots, no non-latched *)
(* alert of that engine is left in the active set.                       *)
C12_RecededAlertCleared ==
    (/\ lastOp.op = "alert_process_snapshot"
     /\ lastOp.ptr = "snapshot"
     /\ alert_trace.calm >= ALERT_DEBOUNCE_CYCLES)
    => \A a \in AlertSlots :
           (/\ a < s_alert_state.active_count
            /\ s_alert_state.alerts[a].engine_id = lastOp.arg)
           => s_alert_state.alerts[a].is_latched

C13_AcknowledgeStep ==
    lastOp'.op = "alert_acknowledge"
    => /\ s_alert_state'.alerts = s_alert_state.alerts
       /\ s_alert_state'.active_count = s_alert_state.active_count
       /\ s_alert_state'.next_alert_id = s_alert_state.next_alert_id
       /\ s_alert_state'.highest_level = s_alert_state.highest_level

C13_LatchedStep ==
    lastOp'.op \in {"alert_acknowledge", "alert_process_snapshot"}
    => \A a \in AlertSlots :
           (a < s_alert_state.active_count /\ s_alert_state.alerts[a].is_latched)
           => /\ a < s_alert_state'.active_count
              /\ s_alert_state'.alerts[a] = s_alert_state.alerts[a]

(* C13: alert_acknowledge changes nothing but master indicators (alert   *)
(* records, active_count, next_alert_id and highest_level stay), and a   *)
(* latched alert stays in the active set, unchanged, through every       *)
(* acknowledgement and every processed snapshot, also one in which its   *)
(* parameter is back inside the threshold.                               *)
C13_AcknowledgeKeepsAlerts ==
    [][C13_AcknowledgeStep]_vars /\ [][C13_LatchedStep]_vars

(* C13 witness: a latched Warning alert is in the active set after its   *)
(* level was acknowledged and a snapshot of its engine with every value  *)
(* inside the thresholds was processed                                   *)
C13_LatchedAfterAcknowledgeAndRecovery ==
    /\ lastOp.op = "alert_process_snapshot"
    /\ lastOp.ptr = "snapshot"
    /\ alert_trace.receded = NUM_THRESHOLDS
    /\ ~s_alert_state.master_warning
    /\ \E a \in AlertSlots :
          /\ a < s_alert_state.active_count
          /\ s_alert_state.alerts[a].is_active
          /\ s_alert_state.alerts[a].is_latched
          /\ s_alert_state.alerts[a].level = EHMS_ALERT_WARNING
          /\ s_alert_state.alerts[a].engine_id = lastOp.arg

(* C14: alert_acknowledge(level) clears the master indicator of that     *)
(* level and of every higher level: after acknowledge(Caution) both      *)
(* master_caution and master_warning are false, after                    *)
(* acknowledge(Warning) master_warning is false.                         *)
C14_AcknowledgeClearsLevelAndAbove ==
    /\ lastOp = Op("alert_acknowledge", EHMS_ALERT_CAUTION, "none")
          => (~s_alert_state.master_caution /\ ~s_alert_state.master_warning)
    /\ lastOp = Op("alert_acknowledge", EHMS_ALERT_WARNING, "none")
          => ~s_alert_state.master_warning

(* The engine, parameter and level of the alerts in the given slots *)
Triples(st, slots) ==
    {<<st.alerts[a].engine_id, st.alerts[a].param_id, st.alerts[a].level>> :
        a \in slots}

(* The exceeded rows of the snapshot whose alert is already in the active set *)
Repeats(st, snapshot) ==
    {t \in ExceededRows(snapshot) :
        <<snapshot.engine_id, s_thresholds[t].param_id, s_thresholds[t].level>>
            \in Triples(st, 0..(st.active_count - 1))}

C15_RepeatStep ==
    (lastOp'.op = "alert_process_snapshot" /\ lastOp'.ptr = "snapshot")
    => \A repeats \in {Repeats(s_alert_state, lastSnapshot'.data)} :
          /\ \A t \in repeats :
                 <<lastSnapshot'.data.engine_id, s_thresholds[t].param_id,
                   s_thresholds[t].level>> \notin Triples(s_alert_state', NewSlots)
          /\ alert_trace'.repeated = Cardinality(repeats)
          /\ repeats = ExceededRows(lastSnapshot'.data)
                => /\ s_alert_state' = s_alert_state
                   /\ alert_trace'.published = << >>

(* C15: while an alert for an engine, parameter and level is in the      *)
(* active set, a further snapshot in which it is still exceeded creates  *)
(* no alert for it; a snapshot all of whose exceedances are already      *)
(* active allocates no alert id, leaves active_count and the whole       *)
(* module state unchanged and publishes nothing, also after an           *)
(* acknowledgement in between.                                           *)
C15_RepeatedExceedanceIsIdempotent == [][C15_RepeatStep]_vars

(* C15 witness: every row of the snapshot was found already active, after *)
(* the Warning level had been acknowledged                                *)
C15_RepeatAfterAcknowledge ==
    /\ lastOp.op = "alert_process_snapshot"
    /\ alert_trace.repeated = NUM_THRESHOLDS
    /\ alert_trace.published = << >>
    /\ ~s_alert_state.master_warning
    /\ s_alert_state.active_count > NUM_THRESHOLDS

C16_NextIdStep ==
    \A a \in 0..(s_alert_state.active_count - 1) :
        s_alert_state.alerts[a].alert_id < s_alert_state'.next_alert_id

(* C16: alert ids are strictly increasing over any sequence of           *)
(* alert_init, alert_process_snapshot and alert_acknowledge calls: after *)
(* every call the id the next created alert gets (next_alert_id) is      *)
(* greater than every id assigned before the call.                       *)
C16_IdsStrictlyIncrease == [][C16_NextIdStep]_vars

(* The rows of the snapshot whose parameter is not Valid and whose cached *)
(* value is beyond the threshold                                         *)
SkippedRows(snapshot) ==
    {t \in 1..NUM_THRESHOLDS :
        /\ snapshot.parameters[s_thresholds[t].param_id].status # EHMS_PARAM_VALID
        /\ Exceeded(s_thresholds[t], snapshot.parameters[s_thresholds[t].param_id])}

RowTriples(engine_id, rows) ==
    {<<engine_id, s_thresholds[t].param_id, s_thresholds[t].level>> : t \in rows}

C17_ValidOnlyStep ==
    (lastOp'.op = "alert_process_snapshot" /\ lastOp'.ptr = "snapshot")
    => \A snapshot \in {lastSnapshot'.data} :
          /\ Triples(s_alert_state', NewSlots)
                 \subseteq RowTriples(snapshot.engine_id, ExceededRows(snapshot))
          /\ Triples(s_alert_state', NewSlots)
                 \cap RowTriples(snapshot.engine_id, SkippedRows(snapshot)) = {}
          /\ (s_alert_state'.master_warning /\ ~s_alert_state.master_warning)
                => \E t \in ExceededRows(snapshot) :
                       s_thresholds[t].level >= EHMS_ALERT_WARNING
          /\ (s_alert_state'.master_caution /\ ~s_alert_state.master_caution)
                => \E t \in ExceededRows(snapshot) :
                       s_thresholds[t].level = EHMS_ALERT_CAUTION
          /\ ExceededRows(snapshot) = {}
                => /\ s_alert_state' = s_alert_state
                   /\ alert_trace'.published = << >>

(* C17: a processed snapshot creates alerts, and sets master indicators, *)
(* only for threshold rows whose parameter has status Valid and is       *)
(* beyond the threshold; a row whose parameter is Stale, Failed,         *)
(* NoComputedData or Test creates nothing, whatever its cached value,    *)
(* and a snapshot with no Valid exceedance leaves the module state as it *)
(* was.                                                                  *)
C17_OnlyValidRaises == [][C17_ValidOnlyStep]_vars

(* C17 witness: a snapshot with EGT Stale at its warning threshold and    *)
(* other parameters Valid beyond theirs raised alerts, none for EGT       *)
C17_StaleExceedanceSkipped ==
    /\ lastOp.op = "alert_process_snapshot"
    /\ lastOp.ptr = "snapshot"
    /\ lastSnapshot.data.parameters[EHMS_PARAM_EGT].status = EHMS_PARAM_STALE
    /\ lastSnapshot.data.parameters[EHMS_PARAM_EGT].eng_value >= 1000000
    /\ alert_trace.published # << >>
    /\ \A a \in 0..(s_alert_state.active_count - 1) :
          s_alert_state.alerts[a].param_id # EHMS_PARAM_EGT

(* The reads of one pass of daq_read_arinc429_data over bus b, in table  *)
(* order: TRUE for a read that succeeded                                 *)
RECURSIVE PassReads(_, _, _)
PassReads(words, b, k) ==
    IF k > Len(Params) THEN << >>
    ELSE IF s_param_config(Params[k]).bus_primary = b
    THEN <<words[b][Params[k]].result = EHMS_OK>> \o PassReads(words, b, k + 1)
    ELSE PassReads(words, b, k + 1)

(* The reads of the primary bus in one cycle: one pass for each engine *)
RECURSIVE CycleReads(_, _)
CycleReads(words, engines) ==
    IF engines = 0 THEN << >>
    ELSE PassReads(words, s_param_config(0).bus_primary, 1)
           \o CycleReads(words, engines - 1)

(* The module state before the first read of the cycle on bus b and     *)
(* after each of its reads                                               *)
RECURSIVE SourceTrace(_, _, _, _)
SourceTrace(st, b, reads, i) ==
    IF i > Len(reads) THEN <<st>>
    ELSE <<st>> \o SourceTrace(daq_update_statistics(st, b, reads[i]), b, reads, i + 1)

(* The reads of the last cycle on the primary bus and the states they    *)
(* went through                                                          *)
PrimaryTrace ==
    SourceTrace([s_daq_state EXCEPT !.current_time_ms = s_daq_state'.current_time_ms],
                s_param_config(0).bus_primary,
                CycleReads(lastWords', config_get_engine_count), 1)

CycleStep == lastOp'.op = "daq_execute_cycle" /\ daq_result' = EHMS_OK

(* C18 as stated: once the sources are initialised, a bus is marked      *)
(* inactive iff its consecutive-failure counter is at least 5.           *)
C18_InactiveIffFiveFailures ==
    s_daq_state.is_initialized
    => \A b \in Buses :
           ~s_daq_state.sources[b].is_active
               <=> s_daq_state.sources[b].failure_count >= 5


C18_ReadStep ==
    CycleStep
    => \A trace \in {PrimaryTrace} :
          /\ trace[Len(trace)].sources = s_daq_state'.sources
          /\ \A i \in 1..Len(trace) :
                 \A b \in Buses :
                     trace[i].sources[b].failure_count >= 5
                         => ~trace[i].sources[b].is_active

(* C18 amended: in every reachable state, and after every single read,   *)
(* a bus whose consecutive-failure counter is at least 5 is marked       *)
(* inactive.                                                             *)
C18_FiveFailuresImplyInactive ==
    /\ [](\A b \in Buses : s_daq_state.sources[b].failure_count >= 5
                               => ~s_daq_state.sources[b].is_active)
    /\ [][C18_ReadStep]_vars

(* C18 witness: an initialised bus is inactive with a counter that was   *)
(* reset and has counted up again, below 5                               *)
C18_InactiveBelowFive ==
    /\ s_daq_state.is_initialized
    /\ lastOp.op = "daq_execute_cycle"
    /\ ~s_daq_state.sources[0].is_active
    /\ s_daq_state.sources[0].failure_count > 0
    /\ s_daq_state.sources[0].failure_count < 5

C19_ReadLink(pre, post, success) ==
    IF success
    THEN post.failure_count = 0 /\ post.is_active = pre.is_active
    ELSE /\ post.failure_count = pre.failure_count + 1
         /\ post.is_active = (pre.is_active /\ post.failure_count < 5)

C19_ReadStep ==
    CycleStep
    => \A trace \in {PrimaryTrace} :
          /\ trace[Len(trace)].sources = s_daq_state'.sources
          /\ \A i \in 1..(Len(trace) - 1) :
                 C19_ReadLink(
                     trace[i].sources[s_param_config(0).bus_primary],
                     trace[i + 1].sources[s_param_config(0).bus_primary],
                     CycleReads(lastWords', config_get_engine_count)[i])

C19_InactiveStep ==
    \A b \in Buses :
        /\ (~s_daq_state.sources[b].is_active /\ s_daq_state'.sources[b].is_active)
              => lastOp'.op = "daq_init"
        /\ (lastOp'.op = "daq_init" /\ daq_result' = EHMS_OK)
              => /\ s_daq_state'.sources[b].is_active
                 /\ s_daq_state'.sources[b].failure_count = 0

(* C19: a failing read adds one to the bus's consecutive-failure counter *)
(* and leaves the bus active exactly while the counter is below 5, so    *)
(* the bus becomes inactive at the 5th consecutive failing read; a       *)
(* successful read resets the counter to 0 and leaves is_active as it    *)
(* was; an inactive bus becomes active again only by daq_init.           *)
C19_DeactivatedAtFifthFailure ==
    [][C19_ReadStep]_vars /\ [][C19_InactiveStep]_vars

(* C19 witness: after the bus was deactivated by five failures a read     *)
(* succeeded: the counter is 0 and the bus is still inactive              *)
C19_ResetButStillInactive ==
    /\ s_daq_state.is_initialized
    /\ lastOp.op = "daq_execute_cycle"
    /\ ~s_daq_state.sources[0].is_active
    /\ s_daq_state.sources[0].failure_count = 0
    /\ s_daq_state.sources[0].error_samples >= 5
    /\ lastWords[0][EHMS_PARAM_COUNT - 1].result = EHMS_OK

C20_SameTickStep ==
    (/\ lastOp.op = "daq_execute_cycle"
     /\ daq_result = EHMS_OK
     /\ lastOp'.op = "daq_execute_cycle"
     /\ now' = now
     /\ lastWords' = lastWords
     /\ lastMsg' = lastMsg)
    => \A e \in ConfiguredEngines :
           s_daq_state'.engine_data[e].crc32 = s_daq_state.engine_data[e].crc32

(* C20: a second daq_execute_cycle right after the first, at the same    *)
(* clock reading and with the same bus answers, leaves for every engine  *)
(* the stored crc32 the first call left.                                 *)
C20_SameTickSameCrc == [][C20_SameTickStep]_vars

C21_HandOverStep ==
    lastOp'.op = "hand_over"
    => /\ daq_result' # EHMS_OK
             => /\ s_alert_state' = s_alert_state
                /\ alert_trace'.published = << >>
                /\ lastSnapshot'.ptr = "NULL"
       /\ PayloadCrc(s_daq_state.engine_data[lastOp'.arg])
             # s_daq_state.engine_data[lastOp'.arg].crc32
             => daq_result' # EHMS_OK
       /\ lastSnapshot'.ptr = "snapshot"
             => /\ lastSnapshot'.data.crc32 = PayloadCrc(out_snapshot'.data)
                /\ out_snapshot'.data = s_daq_state.engine_data[lastOp'.arg]

C21_AlertStep ==
    s_alert_state' # s_alert_state
    => \/ lastOp'.op = "alert_init"
       \/ lastOp'.op = "hand_over" /\ daq_result' = EHMS_OK

(* C21: when the read of an engine's snapshot in a tick fails its        *)
(* integrity check, no alert is created and no master indicator changes  *)
(* in that hand-over; a snapshot the alert manager evaluates has crc32   *)
(* equal to the CRC-32 of its payload.                                   *)
C21_FaultedSnapshotNotEvaluated ==
    [][C21_HandOverStep]_vars /\ [][C21_AlertStep]_vars

(* C21 witness: a snapshot with N1 Valid above its alert threshold failed *)
(* the integrity check and raised nothing                                 *)
C21_ExceedanceInFaultedSnapshot ==
    /\ lastOp.op = "hand_over"
    /\ daq_result = EHMS_ERROR_CRC
    /\ s_daq_state.engine_data[lastOp.arg].parameters[EHMS_PARAM_N1].status
          = EHMS_PARAM_VALID
    /\ s_daq_state.engine_data[lastOp.arg].parameters[EHMS_PARAM_N1].eng_value
          >= 104000
    /\ s_alert_state.active_count = 0

C22_BadArgumentStep ==
    /\ lastOp'.op = "daq_get_engine_snapshot"
          => /\ lastOp'.ptr = "NULL" => daq_result' = EHMS_ERROR_PARAM
             /\ (lastOp'.ptr # "NULL" /\ lastOp'.arg >= 4)
                   => daq_result' = EHMS_ERROR_RANGE
    /\ lastOp'.op = "daq_get_parameter"
          => /\ lastOp'.ptr = "NULL" => daq_result' = EHMS_ERROR_PARAM
             /\ (lastOp'.ptr # "NULL" /\ (lastOp'.arg >= 4 \/ lastOp'.param_id >= 48))
                   => daq_result' = EHMS_ERROR_RANGE
    /\ (/\ lastOp'.op \in {"daq_get_engine_snapshot", "daq_get_parameter"}
        /\ daq_result' \in {EHMS_ERROR_PARAM, EHMS_ERROR_RANGE})
          => /\ s_daq_state' = s_daq_state
             /\ out_snapshot' = out_snapshot
             /\ out_param' = out_param
             /\ reported' = << >>
             /\ alert_vars' = alert_vars

(* C22: daq_get_engine_snapshot and daq_get_parameter return             *)
(* EHMS_ERROR_PARAM for a null output pointer, whatever the other        *)
(* arguments and the initialisation state; otherwise EHMS_ERROR_RANGE    *)
(* for an engine id >= 4 or a parameter id >= 48; in both cases the      *)
(* module state and the output buffers are left unchanged.               *)
C22_BadArgumentsRejected == [][C22_BadArgumentStep]_vars

(* C22 witness: on an initialised module that has run a cycle,           *)
(* daq_get_parameter with a null pointer and an engine id out of range   *)
(* returned EHMS_ERROR_PARAM                                             *)
C22_NullBeforeRange ==
    /\ lastOp.op = "daq_get_parameter"
    /\ lastOp.ptr = "NULL"
    /\ lastOp.arg = EHMS_ENGINE_COUNT
    /\ lastOp.param_id = EHMS_PARAM_COUNT
    /\ daq_result = EHMS_ERROR_PARAM
    /\ s_daq_state.is_initialized
    /\ s_daq_state.cycle_count > 0

(* The daq_init calls a step can be *)
InitCalls ==
    {<<config, first_fail, mux_result>> :
        config \in ConfigInputs, first_fail \in {1, EHMS_ARINC429_BUS_COUNT},
        mux_result \in {EHMS_OK, EHMS_ERROR_HARDWARE}}

C23_BadConfigStep ==
    \A call \in InitCalls :
        DaqInit(call[1], call[2], call[3])
        => /\ call[1].ptr = "NULL" => daq_result' = EHMS_ERROR_PARAM
           /\ (/\ call[1].ptr # "NULL"
               /\ (call[1].sample_rate_hz > 100 \/ call[1].engine_count > 4))
                 => daq_result' = EHMS_ERROR_RANGE
           /\ (\/ call[1].ptr = "NULL"
               \/ call[1].sample_rate_hz > 100
               \/ call[1].engine_count > 4)
                 => /\ s_daq_state' = s_daq_state
                    /\ stamped' = stamped
                    /\ driver_inits' = << >>
                    /\ reported' = << >>

(* C23: daq_init returns EHMS_ERROR_PARAM for a null config and          *)
(* EHMS_ERROR_RANGE for sample_rate_hz > 100 or engine_count > 4; in     *)
(* each case no driver is initialised and the module state, snapshots,   *)
(* counters and initialised flag included, is left as it was.            *)
C23_BadConfigRejected == [][C23_BadConfigStep]_vars

(* C23 witness: a module that was initialised and has run a cycle         *)
(* rejected a configuration as out of range and kept its state            *)
C23_RejectedOnRunningModule ==
    /\ lastOp = Op("daq_init", 0, "config")
    /\ daq_result = EHMS_ERROR_RANGE
    /\ s_daq_state.is_initialized
    /\ s_daq_state.cycle_count > 0
    /\ s_daq_state.sources[0].total_samples > 0

C24_DriverFailureStep ==
    \A call \in InitCalls :
        (/\ DaqInit(call[1], call[2], call[3])
         /\ call[1] = GoodConfig
         /\ call[2] < EHMS_ARINC429_BUS_COUNT)
        => /\ daq_result' = EHMS_ERROR_HARDWARE
           /\ driver_inits' = [i \in 1..(call[2] + 1) |->
                                  [driver |-> "arinc429", bus |-> i - 1]]
           /\ ~s_daq_state'.is_initialized
           /\ reported' = <<[code |-> "ERR_CODE_INIT_FAILED", arg |-> call[2]]>>

C24_NotInitializedStep ==
    (lastOp'.op = "daq_execute_cycle" /\ ~s_daq_state.is_initialized)
    => daq_result' = EHMS_ERROR_NOT_INIT

(* C24: when the driver initialisation of a serial bus fails, daq_init   *)
(* has initialised the buses before it in order 0, 1, ..., returns the   *)
(* driver's error, initialises no later bus and not the multiplex bus,   *)
(* and leaves the module not initialised; a daq_execute_cycle on a       *)
(* module that is not initialised returns EHMS_ERROR_NOT_INIT.           *)
C24_InitStopsAtFailedBus ==
    [][C24_DriverFailureStep]_vars /\ [][C24_NotInitializedStep]_vars

(* C24 witness: daq_init failed at serial bus 1 after initialising bus 0, *)
(* and the module is left not initialised                                 *)
C24_FailedAtSecondBus ==
    /\ lastOp = Op("daq_init", 0, "config")
    /\ daq_result = EHMS_ERROR_HARDWARE
    /\ driver_inits = <<[driver |-> "arinc429", bus |-> 0],
                        [driver |-> "arinc429", bus |-> 1]>>
    /\ ~s_daq_state.is_initialized
    /\ s_daq_state.sources[0].is_active

C25_NotInitializedStep ==
    ~s_daq_state.is_initialized
    => /\ lastOp'.op = "daq_execute_cycle"
             => /\ daq_result' = EHMS_ERROR_NOT_INIT
                /\ s_daq_state' = s_daq_state
                /\ stamped' = stamped
                /\ out_snapshot' = out_snapshot
                /\ out_param' = out_param
       /\ (/\ lastOp'.op = "daq_get_engine_snapshot"
           /\ lastOp'.ptr # "NULL"
           /\ lastOp'.arg < EHMS_ENGINE_COUNT)
             => /\ daq_result' = EHMS_ERROR_NOT_INIT
                /\ s_daq_state' = s_daq_state
                /\ out_snapshot' = out_snapshot
       /\ (/\ lastOp'.op = "daq_get_parameter"
           /\ lastOp'.ptr # "NULL"
           /\ lastOp'.arg < EHMS_ENGINE_COUNT
           /\ lastOp'.param_id < EHMS_PARAM_COUNT)
             => /\ daq_result' = EHMS_ERROR_NOT_INIT
                /\ s_daq_state' = s_daq_state
                /\ out_param' = out_param

(* C25: while the module is not initialised, daq_execute_cycle, and      *)
(* daq_get_engine_snapshot and daq_get_parameter with valid arguments,    *)
(* return EHMS_ERROR_NOT_INIT and change nothing: cycle_count, the bus    *)
(* counters, the snapshots and the caller's buffers stay as they were.    *)
C25_NotInitializedChangesNothing == [][C25_NotInitializedStep]_vars

(* C25 witness: after a daq_init that failed in a driver, daq_get_parameter *)
(* with valid arguments returned EHMS_ERROR_NOT_INIT and wrote nothing      *)
C25_ReadBeforeSuccessfulInit ==
    /\ lastOp.op = "daq_get_parameter"
    /\ lastOp.ptr = "buffer"
    /\ lastOp.arg = 0
    /\ lastOp.param_id = EHMS_PARAM_N1
    /\ daq_result = EHMS_ERROR_NOT_INIT
    /\ ~s_daq_state.is_initialized
    /\ s_daq_state.sources[0].is_active
    /\ s_daq_state.cycle_count = 0
    /\ ~out_param.written

C26_SwitchoverStep ==
    LET primary == s_param_config(EHMS_PARAM_N1).bus_primary
        backup == s_param_config(EHMS_PARAM_N1).bus_backup
    IN (CycleStep /\ lastWords'[primary][EHMS_PARAM_N1].result # EHMS_OK)
       => /\ s_daq_state'.sources[primary].error_samples
                >= s_daq_state.sources[primary].error_samples + config_get_engine_count
          /\ s_daq_state'.sources[backup].total_samples
                >= s_daq_state.sources[backup].total_samples + config_get_engine_count
          /\ lastWords'[backup][EHMS_PARAM_N1].result # EHMS_OK
                => s_daq_state'.sources[backup].error_samples
                      >= s_daq_state.sources[backup].error_samples
                            + config_get_engine_count

(* C26: in every cycle in which the primary-bus read of N1 fails, the    *)
(* backup bus is read for N1 for every engine, whatever the other reads  *)
(* of the cycle and the earlier cycles returned: the primary bus counts  *)
(* the failed reads, the backup bus counts the reads made on it, and     *)
(* counts them as errors when they fail too.                             *)
C26_BackupReadPerFailedParameter == [][C26_SwitchoverStep]_vars

(* Every read the cycle could make for slot p failed *)
C27_AllReadsFailed(p) ==
    IF p \in {EHMS_PARAM_VIB_FAN, EHMS_PARAM_VIB_CORE}
    THEN lastMsg.result # EHMS_OK
    ELSE /\ lastWords[s_param_config(p).bus_primary][p].result # EHMS_OK
         /\ lastWords[s_param_config(p).bus_backup][p].result # EHMS_OK

C27_FailedReadStep ==
    CycleStep =>
        \A e \in ConfiguredEngines, p \in ParamSet :
            LET before == s_daq_state.engine_data[e].parameters[p]
                after == s_daq_state'.engine_data[e].parameters[p]
            IN C27_AllReadsFailed(p)'
                  => /\ after.param_id = before.param_id
                     /\ after.raw_value = before.raw_value
                     /\ after.eng_value = before.eng_value
                     /\ after.timestamp = before.timestamp
                     /\ after.source_bus = before.source_bus

(* C27: a parameter whose reads all fail in a cycle keeps the raw_value, *)
(* eng_value, timestamp and source_bus it had before the cycle; the      *)
(* timestamp is not refreshed and only the status can change.            *)
C27_FailedReadKeepsSample == [][C27_FailedReadStep]_vars

(* C27 witness: N1 was read as 85.0 % in an earlier cycle and its reads  *)
(* failed in the last one: the sample is still there, stamped earlier    *)
(* than the cycle                                                        *)
C27_SampleSurvivedFailedCycle ==
    /\ CycleCompleted
    /\ C27_AllReadsFailed(EHMS_PARAM_N1)
    /\ s_daq_state.engine_data[0].parameters[EHMS_PARAM_N1].raw_value = 850
    /\ s_daq_state.engine_data[0].parameters[EHMS_PARAM_N1].timestamp
          # s_daq_state.current_time_ms

C28_ReadLink(pre, post, success, time) ==
    /\ post.total_samples = pre.total_samples + 1
    /\ IF success
       THEN /\ post.last_update_ms = time
            /\ post.failure_count = 0
            /\ post.error_samples = pre.error_samples
       ELSE /\ post.error_samples = pre.error_samples + 1
            /\ post.failure_count = pre.failure_count + 1
            /\ post.last_update_ms = pre.last_update_ms

C28_ReadStep ==
    CycleStep
    => \A trace \in {PrimaryTrace} :
          /\ trace[Len(trace)].sources = s_daq_state'.sources
          /\ \A i \in 1..(Len(trace) - 1) :
                 /\ C28_ReadLink(
                        trace[i].sources[s_param_config(0).bus_primary],
                        trace[i + 1].sources[s_param_config(0).bus_primary],
                        CycleReads(lastWords', config_get_engine_count)[i],
                        s_daq_state'.current_time_ms)
                 /\ \A b \in Buses \ {s_param_config(0).bus_primary} :
                        trace[i + 1].sources[b] = trace[i].sources[b]

(* C28: each read recorded on a bus changes that bus's counters as       *)
(* stated and no other bus's: a successful read adds one to              *)
(* total_samples, sets last_update_ms to the cycle time and zeroes the   *)
(* consecutive-failure counter; a failed read adds one to total_samples, *)
(* error_samples and the consecutive-failure counter and leaves          *)
(* last_update_ms unchanged.                                             *)
C28_RecordUpdatesStatedCounters == [][C28_ReadStep]_vars

(* The engineering value of a sample of slot p lies outside the limits  *)
(* the parameter database defines for p                                  *)
C29_OutOfLimits(p, q) ==
    LET limits == param_db_get_limits(p)
    IN /\ limits.result = EHMS_OK
       /\ (q.eng_value < limits.min_value \/ q.eng_value > limits.max_value)

C29_OutOfLimitsIsFailed ==
    CycleCompleted =>
        \A e \in ConfiguredEngines, p \in ParamSet :
            LET q == s_daq_state.engine_data[e].parameters[p]
            IN C29_OutOfLimits(p, q) => q.status = EHMS_PARAM_FAILED

C29_SweepKeepsStatus ==
    CycleCompleted =>
        \A e \in ConfiguredEngines, p \in ParamSet :
            \A status \in {EHMS_PARAM_FAILED, EHMS_PARAM_NCD, EHMS_PARAM_TEST} :
                \A age \in {0, DAQ_STALE_TIMEOUT_MS, DAQ_STALE_TIMEOUT_MS + 1} :
                    daq_check_staleness(
                        [s_daq_state.engine_data[e].parameters[p]
                            EXCEPT !.status = status,
                                   !.timestamp = Sub32(s_daq_state.current_time_ms,
                                                       U32(age))],
                        s_daq_state.current_time_ms).status = status

C29_ValuesStep ==
    CycleStep =>
        \A e \in ConfiguredEngines, p \in ParamSet :
            LET before == s_daq_state.engine_data[e].parameters[p]
                after == s_daq_state'.engine_data[e].parameters[p]
                word == lastWords'[s_param_config(0).bus_primary][p]
            IN /\ (/\ s_param_config(p).bus_primary = s_param_config(0).bus_primary
                   /\ word.result = EHMS_OK)
                     => /\ after.raw_value = word.data
                        /\ after.eng_value = word.data * s_param_config(p).scale_factor
                                                + s_param_config(p).offset
               /\ (before.status = EHMS_PARAM_FAILED /\ ~ReadSucceeded(p)')
                     => after.status = EHMS_PARAM_FAILED

(* C29: at the end of every completed cycle a parameter whose eng_value  *)
(* lies outside the limits defined for it has status Failed, with the    *)
(* raw_value and eng_value as acquired; the staleness sweep leaves a     *)
(* Failed, NoComputedData or Test status as it is, whatever the age of   *)
(* the sample.                                                           *)
C29_OutOfLimitsEndsFailed ==
    []C29_OutOfLimitsIsFailed /\ []C29_SweepKeepsStatus /\ [][C29_ValuesStep]_vars

(* A clock reading or timestamp as milliseconds after the wrap of the   *)
(* clock, negative before it                                             *)
C30_SinceWrap(t) ==
    IF t[1] >= 32768
    THEN (t[1] - 65535) * 65536 + (t[2] - 65536)
    ELSE t[1] * 65536 + t[2]

C30_TrueAge(q) ==
    C30_SinceWrap(s_daq_state.current_time_ms) - C30_SinceWrap(q.timestamp)

C30_AgeClassified ==
    CycleCompleted =>
        \A e \in ConfiguredEngines :
            LET q == s_daq_state.engine_data[e].parameters[EHMS_PARAM_N1]
            IN q.timestamp # <<0, 0>>
                  => /\ q.status \in {EHMS_PARAM_VALID, EHMS_PARAM_STALE}
                     /\ q.status = EHMS_PARAM_STALE
                           <=> C30_TrueAge(q) > DAQ_STALE_TIMEOUT_MS

(* C30: the age of a sample is taken modulo 2^32, so a sample stamped    *)
(* before the clock wraps and swept after it is Valid when its true age  *)
(* is at most 100 ms and Stale when its true age is more.                *)
C30_StalenessAcrossWrap == []C30_AgeClassified

(* C30 witness: N1 was stamped before the wrap and is swept after it, at *)
(* a true age of 110 ms, and is Stale                                    *)
C30_StampedBeforeSweptAfter ==
    /\ CycleCompleted
    /\ s_daq_state.current_time_ms[1] = 0
    /\ LET q == s_daq_state.engine_data[0].parameters[EHMS_PARAM_N1]
       IN /\ q.timestamp[1] = 65535
          /\ q.status = EHMS_PARAM_STALE
          /\ C30_TrueAge(q) = DAQ_STALE_TIMEOUT_MS + DAQ_CYCLE_PERIOD_MS

(* The value is at the threshold or beyond it on the unsafe side *)
C31_AtOrBeyond(thresh, param) ==
    /\ thresh.high_limit => param.eng_value >= thresh.threshold
    /\ ~thresh.high_limit => param.eng_value <= thresh.threshold

C31_InclusiveStep ==
    (lastOp'.op = "alert_process_snapshot" /\ lastOp'.ptr = "snapshot")
    => \A snapshot \in {lastSnapshot'.data} :
          \A t \in 1..NUM_THRESHOLDS :
              LET thresh == s_thresholds[t]
                  param == snapshot.parameters[thresh.param_id]
                  triple == <<snapshot.engine_id, thresh.param_id, thresh.level>>
              IN param.status = EHMS_PARAM_VALID
                    => IF C31_AtOrBeyond(thresh, param)
                       THEN \/ triple \in Triples(s_alert_state',
                                                  0..(s_alert_state'.active_count - 1))
                            \/ alert_trace'.dropped > 0
                       ELSE triple \notin Triples(s_alert_state', NewSlots)

(* C31: for a Valid parameter a High row raises its alert iff eng_value  *)
(* >= threshold and a Low row iff eng_value <= threshold: after the      *)
(* snapshot is processed the alert of such a row is in the active set    *)
(* (unless the set was full), a value equal to the threshold included,   *)
(* and a row whose value is strictly on the safe side creates no alert.  *)
C31_InclusiveThresholds == [][C31_InclusiveStep]_vars

(* C31 witness: EGT at exactly its caution threshold and oil pressure at *)
(* exactly its caution threshold raised their caution alerts and, being  *)
(* on the safe side of the warning thresholds, no warning                *)
C31_AlertAtExactThreshold ==
    /\ lastOp.op = "alert_process_snapshot"
    /\ lastOp.ptr = "snapshot"
    /\ lastSnapshot.data.parameters[EHMS_PARAM_EGT].status = EHMS_PARAM_VALID
    /\ lastSnapshot.data.parameters[EHMS_PARAM_EGT].eng_value = 950000
    /\ lastSnapshot.data.parameters[EHMS_PARAM_OIL_PRESS].eng_value = 25000
    /\ s_alert_state.active_count = 5
    /\ <<0, EHMS_PARAM_EGT, EHMS_ALERT_CAUTION>> \in Triples(s_alert_state, 0..4)
    /\ <<0, EHMS_PARAM_OIL_PRESS, EHMS_ALERT_CAUTION>> \in Triples(s_alert_state, 0..4)
    /\ ~s_alert_state.master_warning

C32_WarningFirstStep ==
    (lastOp'.op = "alert_process_snapshot" /\ lastOp'.ptr = "snapshot")
    => \A w, c \in NewSlots :
          (/\ s_alert_state'.alerts[w].param_id = s_alert_state'.alerts[c].param_id
           /\ s_alert_state'.alerts[w].level = EHMS_ALERT_WARNING
           /\ s_alert_state'.alerts[c].level = EHMS_ALERT_CAUTION)
          => /\ w < c
             /\ s_alert_state'.alerts[w].alert_id < s_alert_state'.alerts[c].alert_id

(* C32: when one processed snapshot creates both the Warning and the     *)
(* Caution alert of a parameter, the Warning alert is created first: it  *)
(* takes the lower slot and the smaller alert_id.                        *)
C32_WarningBeforeCaution == [][C32_WarningFirstStep]_vars

C33_SlotCarriesItsEngine ==
    CycleCompleted =>
        \A e \in ConfiguredEngines : s_daq_state.engine_data[e].engine_id = e

C33_AttributionStep ==
    (lastOp'.op = "hand_over" /\ daq_result' = EHMS_OK)
    => \A a \in NewSlots :
          /\ s_alert_state'.alerts[a].engine_id = lastOp'.arg
          /\ s_alert_state'.alerts[a].message.engine = lastOp'.arg + 1

(* C33: after every completed cycle the snapshot stored for engine e     *)
(* carries engine_id = e, for every configured engine, and an alert      *)
(* raised from the snapshot read for engine e is attributed to engine e  *)
(* with message number e + 1.                                            *)
C33_SnapshotCarriesEngineId ==
    []C33_SlotCarriesItsEngine /\ [][C33_AttributionStep]_vars

(* No serial bus has delivered the sample since daq_init *)
C34_NeverRead(q) == q.timestamp = <<0, 0>> /\ q.source_bus = 0 /\ q.raw_value = 0

C34_ParameterReadStep ==
    (/\ lastOp'.op = "daq_get_parameter"
     /\ daq_result' = EHMS_OK
     /\ C34_NeverRead(out_param'.data))
    => out_param'.data.status # EHMS_PARAM_VALID

C34_UnreadNotValid ==
    (CycleCompleted /\ ~Gt32(s_daq_state.current_time_ms, DAQ_STALE_TIMEOUT_MS))
    => \A e \in ConfiguredEngines :
           LET q == s_daq_state.engine_data[e].parameters[EHMS_PARAM_COUNT - 1]
           IN C34_NeverRead(q) => q.status # EHMS_PARAM_VALID

C34_LowAlertStep ==
    (lastOp'.op = "hand_over" /\ daq_result' = EHMS_OK)
    => \A a \in NewSlots :
          C34_NeverRead(lastSnapshot'.data.parameters[s_alert_state'.alerts[a].param_id])
             => s_alert_state'.alerts[a].param_id # EHMS_PARAM_OIL_PRESS

(* C34: a parameter no bus has delivered since daq_init is not reported  *)
(* Valid, neither by daq_get_parameter nor in the snapshot stored by a   *)
(* cycle at a clock reading of at most 100 ms, and its zero value raises *)
(* no oil-pressure alert.                                                *)
C34_UnreadNeverValid ==
    /\ [][C34_ParameterReadStep]_vars
    /\ []C34_UnreadNotValid
    /\ [][C34_LowAlertStep]_vars

(* C35: at the end of a completed cycle in which the multiplex bus       *)
(* delivered the vibration message, the fan vibration sample of every     *)
(* configured engine holds the value delivered and is Valid.              *)
C35_DeliveredVibrationIsValid ==
    (CycleCompleted /\ lastMsg.result = EHMS_OK)
    => \A e \in ConfiguredEngines :
           LET q == s_daq_state.engine_data[e].parameters[EHMS_PARAM_VIB_FAN]
           IN /\ q.raw_value = lastMsg.data0
              /\ q.status = EHMS_PARAM_VALID

(* The store holds the alerts with ids 1 .. active_count in its first    *)
(* active_count slots, all active                                        *)
C36_Dense(st) ==
    /\ st.next_alert_id = st.active_count + 1
    /\ \A a \in 0..(st.active_count - 1) :
          /\ st.alerts[a].alert_id = a + 1
          /\ st.alerts[a].is_active

C36_StoreStep ==
    IF lastOp'.op = "alert_init"
    THEN s_alert_state'.active_count = 0 /\ C36_Dense(s_alert_state')
    ELSE C36_Dense(s_alert_state)
            => /\ C36_Dense(s_alert_state')
               /\ s_alert_state'.active_count >= s_alert_state.active_count
               /\ \A a \in 0..(s_alert_state.active_count - 1) :
                      s_alert_state'.alerts[a] = s_alert_state.alerts[a]

(* C36: from an alert_init to the next one the alert store is            *)
(* append-only and dense: alert_init leaves it empty with next_alert_id  *)
(* 1, and every other call keeps next_alert_id = active_count + 1, never *)
(* lowers active_count, leaves the filled slots as they are, and has     *)
(* slot a below active_count hold the active alert with alert_id a + 1.  *)
C36_StoreAppendOnlyDense == [][C36_StoreStep]_vars

(* C36 witness: the store is full and dense, and the last snapshot had   *)
(* exceedances that found no free slot                                   *)
C36_FullStoreStillDense ==
    /\ lastOp.op = "alert_process_snapshot"
    /\ alert_trace.dropped > 0
    /\ s_alert_state.active_count = EHMS_MAX_ACTIVE_ALERTS
    /\ C36_Dense(s_alert_state)

====
